---- MODULE Spec2Model ----
(***************************************************************************)
(* Model of the asynchronous job pipeline of the Ortrace backend:          *)
(*   - the Postgres-backed job queue      (services/queue_service.rs)      *)
(*   - the worker loop                    (services/worker.rs)             *)
(*   - the ticket rows the worker mutates (services/ticket_service.rs)     *)
(*   - startup and the readiness gate     (main.rs, state.rs)              *)
(*   - the request entry points           (router.rs, controllers, auth)   *)
(*                                                                         *)
(* Every SQL statement is one atomic step (each runs in its own            *)
(* autocommit transaction on the pool), except dequeue, whose sub-select   *)
(* takes a row lock (FOR UPDATE SKIP LOCKED) that is held until the        *)
(* enclosing UPDATE commits: it is two steps with the lock in between.     *)
(***************************************************************************)
EXTENDS Integers, Sequences, FiniteSets, TLC

\* ------------------------------------------------------------------ bounds

\* Video uploads (each inserts one analysis_jobs row) the pipeline sees.
MaxJobs == 1

\* enqueue calls the clients of the bare queue make.
MaxEnqueues == 2

\* Video uploads the pipeline sees where a ticket is uploaded to again.
MaxUploads == 2

\* Rows the recordings table may hold.
MaxTickets == 1

\* retry_count value from which the model stops issuing retry_job calls.
MaxRetries == 1

\* Elements of the longest array a field of the analysis holds.
MaxItems == 2

\* Nesting depth of the JSON texts given to the extractor.
MaxDepth == 2

\* Puts to the one storage path, and write calls the longest of them takes.
MaxPuts == 2
MaxChunks == 2

\* The pollers of the fleet (one worker loop per process).
Workers == {"w1", "w2"}

\* ---------------------------------------------------------------- constants

NoJob == 0
NoTicket == 0

\* Option<T>: NULL is the empty tuple, Some(x) the singleton.
NULL == << >>
Some(x) == << x >>

\* Texts the analysis client may return, as token sequences.
\*   "{" "}" ":"  JSON punctuation      "s"  a JSON string literal
\*   "w"  a prose word                  "nl" a newline     "sp" a space
\*   "s~"  a JSON string literal with three backticks inside it
\*   "sopen"  the start of such a literal, cut at its backticks
\*   "~~~json" "~~~JSON" "~~~Json"  the opening fence of a json block,
\*                                  three backticks and the word
\*   "~~~"  a bare fence, three backticks      "apos"  an apostrophe
JsonText == << "{", "s", ":", "s", "}" >>
FencedProseText == << "w", "nl", "~~~json", "nl", "{", "w", "}", "nl", "~~~" >>
AnalysisTexts == { JsonText, << "w", "w" >>, FencedProseText }

\* The error texts fail_job is given, as one-token texts.
DownloadFailed == << "Download failed" >>
AnalysisFailed == << "Analysis failed" >>

\* The worker loop of the process whose startup the model follows; the
\* other workers run in peer processes against the same database.
LocalWorker == "w1"

VARIABLES
  initPc,      \* position of the background init task (main.rs)
  ready,       \* ReadyAppState: NULL or Some(handle)
  gateWriter,  \* TRUE while set() holds the RwLock write guard
  req,         \* the request in flight (or idle)
  jobs,        \* table analysis_jobs: sequence of rows, id = index
  tickets,     \* table recordings: sequence of rows, id = index
  reports,     \* table reports: sequence of recording ids, one per row
  wpc,         \* each worker's position in process_next_job / start
  wjob,        \* each worker's job local (NoJob before the claim)
  wres,        \* each worker's download/analysis outcome
  up,          \* the upload_video call in flight (or idle)
  stage,       \* the analysis stage of the job in hand, step by step
  disk,        \* LocalStorage: the file at one path, its writer and reader
  rep,         \* one analysis on its way to a report row and back out
  ext          \* one text given to the report extractor, raw and fenced

vars == << initPc, ready, gateWriter, req, jobs, tickets, reports,
           wpc, wjob, wres, up, stage, disk, rep, ext >>

gateVars == << initPc, ready, gateWriter, req >>
dbVars == << jobs, tickets, reports >>
workerVars == << wpc, wjob, wres >>
sideVars == << stage, disk, rep, ext >>

\* The services outside the pipeline at rest.
Idle == [ pc |-> "idle" ]
SideIdle == stage = Idle /\ disk = Idle /\ rep = Idle /\ ext = Idle

\* ------------------------------------------------------------ the job queue

JobIds == 1..Len(jobs)
TicketIds == 1..Len(tickets)

\* The row enqueue inserts: status Pending, created_at from the database
\* clock (one tick per insert, so creation times are strictly increasing),
\* every other column at its default.
NewJob(recording_id) ==
  [ status |-> "Pending",
    recording_id |-> recording_id,
    created_at |-> Len(jobs) + 1,
    started_at |-> FALSE,
    completed_at |-> FALSE,
    analysis_result |-> NULL,
    error_message |-> NULL,
    retry_count |-> 0 ]

\* QueueService::enqueue: INSERT ... RETURNING id.
enqueue(recording_id) == Append(jobs, NewJob(recording_id))

\* A row is locked while some poller's dequeue statement has selected it
\* FOR UPDATE and has not yet committed the enclosing UPDATE.
Locked(j) == \E w \in Workers : wpc[w] = "dequeue_update" /\ wjob[w] = j

\* Claimable without FOR UPDATE SKIP LOCKED: every Pending row.
ClaimableIgnoringLocks == { j \in JobIds : jobs[j].status = "Pending" }

\* The rows the sub-select of dequeue can return: Pending, not locked by
\* another statement (SKIP LOCKED).
Claimable == { j \in JobIds : jobs[j].status = "Pending" /\ ~Locked(j) }

\* The sub-select with ORDER BY created_at DESC.
dequeue_select_newest ==
  IF Claimable = {} THEN NoJob
  ELSE CHOOSE j \in Claimable :
         \A k \in Claimable : jobs[j].created_at >= jobs[k].created_at

\* SELECT id ... WHERE status = 'pending' ORDER BY created_at ASC LIMIT 1
\* FOR UPDATE SKIP LOCKED: the claimable row with the least created_at, or
\* NoJob when there is none.
dequeue_select ==
  IF Claimable = {} THEN NoJob
  ELSE CHOOSE j \in Claimable :
         \A k \in Claimable : jobs[j].created_at <= jobs[k].created_at

\* The UPDATE of dequeue without started_at = now().
dequeue_update_unstamped(j) == [ jobs EXCEPT ![j].status = "Processing" ]

\* UPDATE analysis_jobs SET status = 'processing', started_at = now()
\* WHERE id = <the selected row>.
dequeue_update(j) ==
  [ jobs EXCEPT ![j].status = "Processing", ![j].started_at = TRUE ]

\* QueueService::complete_job: the UPDATE has no condition on the status.
complete_job(j, result) ==
  [ jobs EXCEPT ![j].status = "Completed",
                ![j].analysis_result = Some(result),
                ![j].completed_at = TRUE ]

\* fail_job without retry_count = retry_count + 1.
fail_job_uncounted(j, error) ==
  [ jobs EXCEPT ![j].status = "Failed",
                ![j].error_message = Some(error),
                ![j].completed_at = TRUE ]

\* fail_job putting the job back in the queue instead of failing it.
fail_job_requeue(j, error) ==
  [ jobs EXCEPT ![j].status = "Pending",
                ![j].error_message = Some(error),
                ![j].retry_count = @ + 1 ]

\* QueueService::fail_job: the UPDATE has no condition on the status.
fail_job(j, error) ==
  [ jobs EXCEPT ![j].status = "Failed",
                ![j].error_message = Some(error),
                ![j].completed_at = TRUE,
                ![j].retry_count = @ + 1 ]

\* retry_job counting the retry itself.
retry_job_counting(j) ==
  IF j \in JobIds /\ jobs[j].status = "Failed"
  THEN [ jobs EXCEPT ![j].status = "Pending",
                     ![j].error_message = NULL,
                     ![j].started_at = FALSE,
                     ![j].retry_count = @ + 1 ]
  ELSE jobs

\* retry_job without AND status = 'failed'.
retry_job_unguarded(j) ==
  IF j \in JobIds
  THEN [ jobs EXCEPT ![j].status = "Pending",
                     ![j].error_message = NULL,
                     ![j].started_at = FALSE ]
  ELSE jobs

\* retry_job putting the job at the end of the queue.
retry_job_restamped(j) ==
  IF j \in JobIds /\ jobs[j].status = "Failed"
  THEN [ jobs EXCEPT ![j].status = "Pending",
                     ![j].error_message = NULL,
                     ![j].started_at = FALSE,
                     ![j].created_at = Len(jobs) + 1 ]
  ELSE jobs

\* retry_job without error_message = NULL.
retry_job_keeping_error(j) ==
  IF j \in JobIds /\ jobs[j].status = "Failed"
  THEN [ jobs EXCEPT ![j].status = "Pending", ![j].started_at = FALSE ]
  ELSE jobs

\* QueueService::retry_job: ... WHERE id = $2 AND status = 'failed'. An id
\* that names no row matches nothing.
retry_job(j) ==
  IF j \in JobIds /\ jobs[j].status = "Failed"
  THEN [ jobs EXCEPT ![j].status = "Pending",
                     ![j].error_message = NULL,
                     ![j].started_at = FALSE ]
  ELSE jobs

\* ---------------------------------------------------------------- tickets

\* TicketService::create_from_widget: INSERT ... status 'recording'.
NewTicket == [ status |-> "recording", analysis_job_id |-> NoJob ]

\* TicketService::mark_analyzed / mark_failed: UPDATE recordings SET status
\* ... WHERE id = $1. A deleted row (status "deleted" in the model, the row
\* keeps its index) is not matched: the statement updates nothing and
\* returns Ok.
mark_analyzed(t) ==
  IF tickets[t].status = "deleted" THEN tickets
  ELSE [ tickets EXCEPT ![t].status = "analyzed" ]
mark_failed(t) ==
  IF tickets[t].status = "deleted" THEN tickets
  ELSE [ tickets EXCEPT ![t].status = "failed" ]

\* ----------------------------------------------------- the report extractor

IsWs(t) == t \in { "nl", "sp" }

\* A token that begins with three backticks: what a search for a fence
\* matches.
IsFence(t) == t \in { "~~~", "~~~json", "~~~JSON", "~~~Json" }

\* A JSON string literal.
IsJsonString(t) == t \in { "s", "s~" }

RECURSIVE trim_start(_)
trim_start(s) ==
  IF s # << >> /\ IsWs(Head(s)) THEN trim_start(Tail(s)) ELSE s

RECURSIVE trim_end(_)
trim_end(s) ==
  IF s # << >> /\ IsWs(s[Len(s)]) THEN trim_end(SubSeq(s, 1, Len(s) - 1))
  ELSE s

trim(s) == trim_end(trim_start(s))

\* str::find: the least of the indices at which the pattern matches, or 0
\* when it matches nowhere.
FirstIndex(matches) ==
  IF matches = {} THEN 0
  ELSE CHOOSE i \in matches : \A k \in matches : i <= k

\* The JSON values of the token language:
\*   string | {} | { string : value }.
RECURSIVE IsJsonValue(_)
IsJsonValue(s) ==
  \/ Len(s) = 1 /\ IsJsonString(s[1])
  \/ s = << "{", "}" >>
  \/ /\ Len(s) >= 5
     /\ s[1] = "{" /\ IsJsonString(s[2]) /\ s[3] = ":" /\ s[Len(s)] = "}"
     /\ IsJsonValue(SubSeq(s, 4, Len(s) - 1))

\* serde_json::from_str::<Value>: whitespace between tokens is skipped, the
\* whole input must be one value. The value is its whitespace-free tokens.
from_str(s) ==
  LET t == SelectSeq(s, LAMBDA x : ~IsWs(x))
  IN IF IsJsonValue(t) THEN Some(t) ELSE NULL

\* Stage 2 for one start marker: the text after the marker up to a newline
\* followed by three backticks, else up to the next three backticks
\* (wherever they are, inside the string literal s~ too), else to the end.
FencedJson(trimmed, start_marker) ==
  LET start == FirstIndex({ i \in 1..Len(trimmed) :
                              trimmed[i] = start_marker })
      after_start == trim_start(SubSeq(trimmed, start + 1, Len(trimmed)))
      nlEnd == FirstIndex({ i \in 1..(Len(after_start) - 1) :
                              /\ after_start[i] = "nl"
                              /\ IsFence(after_start[i + 1]) })
      end == IF nlEnd # 0 THEN nlEnd
             ELSE FirstIndex({ i \in 1..Len(after_start) :
                                 \/ IsFence(after_start[i])
                                 \/ after_start[i] = "s~" })
      cut == IF end # 0 /\ after_start[end] = "s~" THEN << "sopen" >>
             ELSE << >>
      json_str == IF end # 0
                  THEN trim(SubSeq(after_start, 1, end - 1) \o cut)
                  ELSE trim(after_start)
  IN IF start = 0 THEN NULL ELSE from_str(json_str)

\* The scan of stage 3: the index in rest of the brace that closes the first open
\* brace, or 0 when the braces never balance. An apostrophe opens a string
\* that the next apostrophe closes; the token s is a whole double-quoted
\* string.
RECURSIVE BraceEnd(_, _, _, _)
BraceEnd(rest, i, depth, in_string) ==
  IF i > Len(rest) THEN 0
  ELSE IF in_string
       THEN BraceEnd(rest, i + 1, depth, rest[i] # "apos")
  ELSE IF rest[i] = "apos" THEN BraceEnd(rest, i + 1, depth, TRUE)
  ELSE IF rest[i] = "{" THEN BraceEnd(rest, i + 1, depth + 1, FALSE)
  ELSE IF rest[i] = "}"
       THEN IF depth - 1 = 0 THEN i
            ELSE BraceEnd(rest, i + 1, depth - 1, FALSE)
  ELSE BraceEnd(rest, i + 1, depth, FALSE)

BraceJson(trimmed) ==
  LET open == FirstIndex({ i \in 1..Len(trimmed) : trimmed[i] = "{" })
      rest == SubSeq(trimmed, open, Len(trimmed))
      end_byte == BraceEnd(rest, 1, 0, FALSE)
  IN IF open = 0 \/ end_byte = 0 THEN NULL
     ELSE from_str(SubSeq(rest, 1, end_byte))

\* An extractor without the stage for fenced blocks.
extract_analysis_json_unfenced(analysis) ==
  LET trimmed == trim(analysis)
  IN IF from_str(trimmed) # NULL THEN from_str(trimmed)
     ELSE BraceJson(trimmed)

\* Worker::extract_analysis_json: raw JSON, then a fenced json block (the
\* lower-case marker, then the upper-case one), then the first braced span.
extract_analysis_json(analysis) ==
  LET trimmed == trim(analysis)
  IN IF from_str(trimmed) # NULL THEN from_str(trimmed)
     ELSE IF FencedJson(trimmed, "~~~json") # NULL THEN FencedJson(trimmed, "~~~json")
     ELSE IF FencedJson(trimmed, "~~~JSON") # NULL THEN FencedJson(trimmed, "~~~JSON")
     ELSE BraceJson(trimmed)

\* ------------------------------------------------------------- the worker

\* The ticket a claimed job references (recording_id), or NoTicket.
TicketOf(j) == jobs[j].recording_id

\* An iteration of process_next_job is over: back at the top of the loop
\* of Worker::start, through the given sleep if any.
EndIteration(w, pc) ==
  /\ wpc' = [wpc EXCEPT ![w] = pc]
  /\ wjob' = [wjob EXCEPT ![w] = NoJob]
  /\ wres' = [wres EXCEPT ![w] = NULL]

\* dequeue, first half: the sub-select locks the oldest claimable row. With
\* no claimable row the statement updates nothing, dequeue returns None,
\* process_next_job returns Ok(false) and the loop sleeps.
WorkerDequeueSelect(w) ==
  /\ wpc[w] = "poll"
  /\ LET j == dequeue_select
     IN IF j = NoJob
        THEN EndIteration(w, "sleep_idle")
        ELSE /\ wpc' = [wpc EXCEPT ![w] = "dequeue_update"]
             /\ wjob' = [wjob EXCEPT ![w] = j]
             /\ UNCHANGED wres
  /\ UNCHANGED << gateVars, dbVars, up, sideVars >>

\* dequeue, second half: the UPDATE commits (releasing the row lock) and
\* RETURNING * hands the row to the caller.
WorkerDequeueUpdate(w) ==
  /\ wpc[w] = "dequeue_update"
  /\ jobs' = dequeue_update(wjob[w])
  /\ wpc' = [wpc EXCEPT ![w] = "process"]
  /\ UNCHANGED << gateVars, tickets, reports, wjob, wres, up, sideVars >>

\* Between the claim and the first write the worker touches no row:
\* storage.download, save_temp_file, build_prompt_for_ticket (reads only)
\* and gemini.analyze are one step with four outcomes.

\* storage.download fails: the Err arm goes on to fail_job.
WorkerDownloadFails(w) ==
  /\ wpc[w] = "process"
  /\ wpc' = [wpc EXCEPT ![w] = "fail_job"]
  /\ wres' = [wres EXCEPT ![w] = DownloadFailed]
  /\ UNCHANGED << gateVars, dbVars, wjob, up, sideVars >>

\* save_temp_file fails: its ? returns Err from process_next_job with the
\* job as it is; the loop logs and sleeps.
WorkerTempFileFails(w) ==
  /\ wpc[w] = "process"
  /\ EndIteration(w, "sleep_error")
  /\ UNCHANGED << gateVars, dbVars, up, sideVars >>

\* A worker that inserts the report as soon as the analysis returns.
WorkerAnalysisOkReportsFirst(w) ==
  /\ wpc[w] = "process"
  /\ \E text \in AnalysisTexts : wres' = [wres EXCEPT ![w] = text]
  /\ wpc' = [wpc EXCEPT ![w] = "create_report"]
  /\ UNCHANGED << gateVars, dbVars, wjob, up, sideVars >>

\* gemini.analyze returns Ok(text); the temp file is removed.
WorkerAnalysisOk(w) ==
  /\ wpc[w] = "process"
  /\ \E text \in AnalysisTexts : wres' = [wres EXCEPT ![w] = text]
  /\ wpc' = [wpc EXCEPT ![w] = "complete_job"]
  /\ UNCHANGED << gateVars, dbVars, wjob, up, sideVars >>

\* gemini.analyze returns Err; the temp file is removed.
WorkerAnalysisFails(w) ==
  /\ wpc[w] = "process"
  /\ wres' = [wres EXCEPT ![w] = AnalysisFailed]
  /\ wpc' = [wpc EXCEPT ![w] = "fail_job"]
  /\ UNCHANGED << gateVars, dbVars, wjob, up, sideVars >>

\* queue.fail_job(job.id, error) on either failure arm.
WorkerFailJob(w) ==
  /\ wpc[w] = "fail_job"
  /\ jobs' = fail_job(wjob[w], wres[w])
  /\ IF TicketOf(wjob[w]) # NoTicket
     THEN /\ wpc' = [wpc EXCEPT ![w] = "mark_failed"]
          /\ UNCHANGED << wjob, wres >>
     ELSE EndIteration(w, "poll")
  /\ UNCHANGED << gateVars, tickets, reports, up, sideVars >>

\* tickets.mark_failed(recording_id), then return Ok(true).
WorkerMarkFailed(w) ==
  /\ wpc[w] = "mark_failed"
  /\ tickets' = mark_failed(TicketOf(wjob[w]))
  /\ EndIteration(w, "poll")
  /\ UNCHANGED << gateVars, jobs, reports, up, sideVars >>

\* queue.complete_job(job.id, analysis_result).
WorkerCompleteJob(w) ==
  /\ wpc[w] = "complete_job"
  /\ jobs' = complete_job(wjob[w], wres[w])
  /\ IF TicketOf(wjob[w]) # NoTicket
     THEN /\ wpc' = [wpc EXCEPT ![w] = "mark_analyzed"]
          /\ UNCHANGED << wjob, wres >>
     ELSE EndIteration(w, "poll")
  /\ UNCHANGED << gateVars, tickets, reports, up, sideVars >>

\* tickets.mark_analyzed(recording_id).
WorkerMarkAnalyzed(w) ==
  /\ wpc[w] = "mark_analyzed"
  /\ tickets' = mark_analyzed(TicketOf(wjob[w]))
  /\ wpc' = [wpc EXCEPT ![w] = "create_report"]
  /\ UNCHANGED << gateVars, jobs, reports, wjob, wres, up, sideVars >>

\* The report step inserting a row whatever the extraction returns.
create_report_always(recording_id, analysis) == Append(reports, recording_id)

\* Worker::create_report_from_analysis: without JSON it returns Err before
\* any insert; with JSON it inserts the report row.
create_report_from_analysis(recording_id, analysis) ==
  IF extract_analysis_json(analysis) = NULL THEN reports
  ELSE Append(reports, recording_id)

\* The report step; its Err is logged and dropped, then Ok(true).
WorkerCreateReport(w) ==
  /\ wpc[w] = "create_report"
  /\ reports' = create_report_from_analysis(TicketOf(wjob[w]), wres[w])
  /\ EndIteration(w, "poll")
  /\ UNCHANGED << gateVars, jobs, tickets, up, sideVars >>

\* The INSERT of the report fails: logged and dropped, then Ok(true).
WorkerCreateReportDbError(w) ==
  /\ wpc[w] = "create_report"
  /\ EndIteration(w, "poll")
  /\ UNCHANGED << gateVars, dbVars, up, sideVars >>

\* A statement error that ends the loop: start returns the Err instead of
\* sleeping.
WorkerDbErrorEndsLoop(w) ==
  /\ wpc[w] \in { "poll", "dequeue_update", "fail_job", "mark_failed",
                  "complete_job", "mark_analyzed" }
  /\ EndIteration(w, "stopped")
  /\ UNCHANGED << gateVars, dbVars, up, sideVars >>

\* A queue or ticket statement fails: its ? returns Err from
\* process_next_job, nothing is written (a dequeue in flight rolls back and
\* drops its row lock), the loop logs and sleeps.
WorkerDbError(w) ==
  /\ wpc[w] \in { "poll", "dequeue_update", "fail_job", "mark_failed",
                  "complete_job", "mark_analyzed" }
  /\ EndIteration(w, "sleep_error")
  /\ UNCHANGED << gateVars, dbVars, up, sideVars >>

\* sleep(poll_interval) is over.
WorkerWake(w) ==
  /\ wpc[w] \in { "sleep_idle", "sleep_error" }
  /\ wpc' = [wpc EXCEPT ![w] = "poll"]
  /\ UNCHANGED << gateVars, dbVars, wjob, wres, up, sideVars >>

\* A peer process dies: its connection closes (a statement in flight rolls
\* back) and nothing it held in memory survives.
Crash(w) ==
  /\ w # LocalWorker
  /\ wpc[w] # "crashed"
  /\ EndIteration(w, "crashed")
  /\ UNCHANGED << gateVars, dbVars, up, sideVars >>

\* Process supervision starts the peer again; after its startup its new
\* worker loop polls.
Restart(w) ==
  /\ wpc[w] = "crashed"
  /\ wpc' = [wpc EXCEPT ![w] = "poll"]
  /\ UNCHANGED << gateVars, dbVars, wjob, wres, up, sideVars >>

\* ------------------------------------------------------ the readiness gate

\* The Arc<AppState> that AppState::new builds.
Handle == "AppState"

\* The slot while the store of set is under way: neither the old value nor
\* the new one.
Torn == << "partial" >>

\* A read that takes no guard.
ReadUnguarded == TRUE

\* ReadyAppState::get: a read guard on the RwLock, then a clone of the slot.
\* The read guard waits while a write guard is held.
CanRead == ~gateWriter
get == ready

\* get_or_unavailable handing out the slot without looking at it.
get_or_unavailable_unchecked == [ ok |-> TRUE, state |-> get ]

\* ReadyAppState::get_or_unavailable.
get_or_unavailable ==
  IF get = NULL THEN [ ok |-> FALSE, error |-> "ServiceUnavailable" ]
  ELSE [ ok |-> TRUE, state |-> get ]

\* AppError::into_response for ServiceUnavailable, and the other errors.
StatusOf(error) == IF error = "ServiceUnavailable" THEN 503 ELSE 500

\* ------------------------------------------------- uploads, tickets, retry

\* submit_feedback: the gate (get_or_unavailable), then
\* TicketService::create_from_widget.
CreateTicket ==
  /\ CanRead
  /\ get_or_unavailable.ok
  /\ Len(tickets) < MaxTickets
  /\ tickets' = Append(tickets, NewTicket)
  /\ UNCHANGED << gateVars, jobs, reports, workerVars, up, sideVars >>

IdleUpload == [ pc |-> "idle", ticket |-> NoTicket, job |-> NoJob ]

\* upload_widget_video: the gate (get_or_unavailable), then upload_video up
\* to its first UPDATE: get_owned finds the ticket, the video is stored, the
\* status of the ticket becomes uploading.
UploadBegin(t) ==
  /\ CanRead
  /\ get_or_unavailable.ok
  /\ up.pc = "idle"
  /\ tickets[t].status # "deleted"
  /\ tickets' = [ tickets EXCEPT ![t].status = "uploading" ]
  /\ up' = [ pc |-> "enqueue", ticket |-> t, job |-> NoJob ]
  /\ UNCHANGED << gateVars, jobs, reports, workerVars, sideVars >>

\* upload_video: queue.enqueue with recording_id = Some(ticket_id). (A
\* storage-layer error here or in the last UPDATE is returned to the caller
\* with what was written left in place; the model follows the calls that
\* go through.)
UploadEnqueue ==
  /\ up.pc = "enqueue"
  /\ jobs' = enqueue(up.ticket)
  /\ up' = [ up EXCEPT !.pc = "link", !.job = Len(jobs) + 1 ]
  /\ UNCHANGED << gateVars, tickets, reports, workerVars, sideVars >>

\* upload_video's last UPDATE: analysis_job_id = job, status = 'processing'
\* (WHERE id = $2: nothing when the row is deleted).
UploadLink ==
  /\ up.pc = "link"
  /\ tickets' = IF tickets[up.ticket].status = "deleted" THEN tickets
                ELSE [ tickets EXCEPT ![up.ticket].analysis_job_id = up.job,
                                      ![up.ticket].status = "processing" ]
  /\ up' = IdleUpload
  /\ UNCHANGED << gateVars, jobs, reports, workerVars, sideVars >>

\* An external retry_job call (the admin retry the function is kept for).
RetryJob(j) ==
  /\ jobs[j].retry_count <= MaxRetries
  /\ jobs' = retry_job(j)
  /\ UNCHANGED << gateVars, tickets, reports, workerVars, up, sideVars >>

\* ------------------------------------------------------------- startup

\* An init task that calls set as soon as the database is connected.
InitStepOkSetsEarly ==
  /\ initPc \in { "connect", "migrate", "services" }
  /\ initPc' = CASE initPc = "connect" -> "set"
                 [] initPc = "migrate" -> "services"
                 [] initPc = "services" -> "set"
  /\ UNCHANGED << ready, gateWriter, req, dbVars, workerVars, up, sideVars >>

\* PgPool::connect, migrations, AppState::new: each step succeeds ...
InitStepOk ==
  /\ initPc \in { "connect", "migrate", "services" }
  /\ initPc' = CASE initPc = "connect" -> "migrate"
                 [] initPc = "migrate" -> "services"
                 [] initPc = "services" -> "set"
  /\ UNCHANGED << ready, gateWriter, req, dbVars, workerVars, up, sideVars >>

\* A failing init task that opens the gate on its way out.
InitStepFailsSetsGate ==
  /\ initPc \in { "connect", "migrate", "services" }
  /\ initPc' = "failed"
  /\ ready' = Some(Handle)
  /\ UNCHANGED << gateWriter, req, dbVars, workerVars, up, sideVars >>

\* ... or fails: ? returns Err, the spawned task logs it and ends.
InitStepFails ==
  /\ initPc \in { "connect", "migrate", "services" }
  /\ initPc' = "failed"
  /\ UNCHANGED << ready, gateWriter, req, dbVars, workerVars, up, sideVars >>

\* A set whose caller takes the write guard before the database is
\* connected and holds it through initialization.
SetAcquireEarly ==
  /\ initPc \in { "connect", "set" }
  /\ ~gateWriter
  /\ gateWriter' = TRUE
  /\ initPc' = IF initPc = "set" THEN "set_write" ELSE initPc
  /\ UNCHANGED << ready, req, dbVars, workerVars, up, sideVars >>

\* ready.set(state): take the write guard ...
SetAcquire ==
  /\ initPc = "set"
  /\ ~gateWriter
  /\ gateWriter' = TRUE
  /\ initPc' = "set_write"
  /\ UNCHANGED << ready, req, dbVars, workerVars, up, sideVars >>

\* A set that leaves the slot empty.
set_nothing(state) == NULL

\* ... store Some(state) and drop the guard.
set(state) == Some(state)

\* The store through the guard begins: the old value is dropped and the new
\* one moved in, and in between the slot holds neither ...
SetStore ==
  /\ initPc = "set_write"
  /\ ready' = Torn
  /\ initPc' = "set_release"
  /\ UNCHANGED << gateWriter, req, dbVars, workerVars, up, sideVars >>

\* ... and ends: the slot holds Some(state) and the guard is dropped.
SetWrite ==
  /\ initPc = "set_release"
  /\ ready' = set(Handle)
  /\ gateWriter' = FALSE
  /\ initPc' = "spawn_worker"
  /\ UNCHANGED << req, dbVars, workerVars, up, sideVars >>

\* An init task that spawns the worker before it calls set, and again
\* after.
SpawnWorkerBeforeSet ==
  /\ \/ initPc = "set" /\ wpc[LocalWorker] = "not_started"
     \/ initPc = "spawn_worker"
  /\ wpc' = [wpc EXCEPT ![LocalWorker] = "poll"]
  /\ initPc' = IF initPc = "spawn_worker" THEN "done" ELSE initPc
  /\ UNCHANGED << ready, gateWriter, req, dbVars, wjob, wres, up, sideVars >>

\* Worker::new(state) and tokio::spawn(worker.start()).
SpawnWorker ==
  /\ initPc = "spawn_worker"
  /\ wpc' = [wpc EXCEPT ![LocalWorker] = "poll"]
  /\ initPc' = "done"
  /\ UNCHANGED << ready, gateWriter, req, dbVars, wjob, wres, up, sideVars >>

\* ------------------------------------------------------------- the requests

\* The entry points of router.rs, by how they reach the gate:
\*   health           controllers::health (ready.get)
\*   public           a handler on a route without middleware
\*                    (get_or_unavailable)
\*   google_callback  the handler that builds its own 503
\*   protected        auth_middleware, then a handler (get_or_unavailable)
\*   me               auth_middleware, then get_current_user (no gate)
Routes == { "health", "public", "google_callback", "protected", "me" }

IdleRequest ==
  [ pc |-> "idle", route |-> "none", state |-> NULL, resp |-> 0,
    served |-> FALSE ]

RequestArrives(route) ==
  /\ req.pc = "idle"
  /\ req' = [ IdleRequest EXCEPT
                !.pc = IF route \in { "protected", "me" } THEN "middleware" ELSE "handler",
                !.route = route ]
  /\ UNCHANGED << initPc, ready, gateWriter, dbVars, workerVars, up, sideVars >>

Respond(status) == [ req EXCEPT !.pc = "respond", !.resp = status ]

\* auth_middleware: the gate first; then the header, the token and the
\* user lookup through state.auth; then next.run.
auth_middleware ==
  /\ req.pc = "middleware"
  /\ CanRead
  /\ LET state == get
     IN IF state = NULL
        THEN req' = Respond(StatusOf("ServiceUnavailable"))
        ELSE \/ req' = [ Respond(401) EXCEPT !.state = state ]
             \/ req' = [ Respond(401) EXCEPT !.state = state,
                                             !.served = TRUE ]
             \/ req' = [ req EXCEPT !.pc = "handler", !.state = state,
                                    !.served = TRUE ]
  /\ UNCHANGED << initPc, ready, gateWriter, dbVars, workerVars, up, sideVars >>

\* GET /health: 200 once the gate is set, 503 before.
health ==
  /\ req.pc = "handler" /\ req.route = "health"
  /\ CanRead
  /\ req' = Respond(IF get # NULL THEN 200 ELSE 503)
  /\ UNCHANGED << initPc, ready, gateWriter, dbVars, workerVars, up, sideVars >>

\* A handler whose first statement is ready.get_or_unavailable().await?
\* (google_callback matches on it and returns its own 503).
GatedHandler ==
  /\ req.pc = "handler"
  /\ req.route \in { "public", "google_callback", "protected" }
  /\ CanRead
  /\ LET r == get_or_unavailable
     IN IF r.ok
        THEN req' = [ req EXCEPT !.pc = "service", !.state = r.state ]
        ELSE req' = Respond(IF req.route = "google_callback" THEN 503
                            ELSE StatusOf(r.error))
  /\ UNCHANGED << initPc, ready, gateWriter, dbVars, workerVars, up, sideVars >>

\* get_current_user: answers from the Extension the middleware inserted.
get_current_user ==
  /\ req.pc = "handler" /\ req.route = "me"
  /\ req' = Respond(200)
  /\ UNCHANGED << initPc, ready, gateWriter, dbVars, workerVars, up, sideVars >>

\* The body of a gated handler: calls on the services of the handle.
HandlerBody ==
  /\ req.pc = "service"
  /\ \E status \in { 200, 500 } :
       req' = [ Respond(status) EXCEPT !.served = TRUE ]
  /\ UNCHANGED << initPc, ready, gateWriter, dbVars, workerVars, up, sideVars >>

\* The response is written; the connection serves the next request.
ResponseSent ==
  /\ req.pc = "respond"
  /\ req' = IdleRequest
  /\ UNCHANGED << initPc, ready, gateWriter, dbVars, workerVars, up, sideVars >>

\* ------------------------------------------------------- the specifications

Init ==
  /\ initPc = "connect"
  /\ ready = NULL
  /\ gateWriter = FALSE
  /\ req = IdleRequest
  /\ jobs = << >>
  /\ tickets = << >>
  /\ reports = << >>
  /\ wpc = [ w \in Workers |->
             IF w = LocalWorker THEN "not_started" ELSE "poll" ]
  /\ wjob = [ w \in Workers |-> NoJob ]
  /\ wres = [ w \in Workers |-> NULL ]
  /\ up = IdleUpload
  /\ SideIdle

Startup ==
  \/ InitStepOk
  \/ InitStepFails
  \/ SetAcquire
  \/ SetStore
  \/ SetWrite
  \/ SpawnWorker

WorkerStep(w) ==
  \/ WorkerDequeueSelect(w)
  \/ WorkerDequeueUpdate(w)
  \/ WorkerDownloadFails(w)
  \/ WorkerTempFileFails(w)
  \/ WorkerAnalysisOk(w)
  \/ WorkerAnalysisFails(w)
  \/ WorkerFailJob(w)
  \/ WorkerMarkFailed(w)
  \/ WorkerCompleteJob(w)
  \/ WorkerMarkAnalyzed(w)
  \/ WorkerCreateReportDbError(w)
  \/ WorkerCreateReport(w)
  \/ WorkerDbError(w)
  \/ WorkerWake(w)

Upload ==
  \/ \E t \in TicketIds : Len(jobs) < MaxJobs /\ UploadBegin(t)
  \/ UploadEnqueue
  \/ UploadLink

\* The pipeline: startup, the fleet's workers, uploads and external retries.
Next ==
  \/ Startup
  \/ \E w \in Workers : WorkerStep(w)
  \/ \E w \in Workers : Crash(w)
  \/ \E w \in Workers : Restart(w)
  \/ CreateTicket
  \/ Upload
  \/ \E j \in JobIds : RetryJob(j)

Spec == Init /\ [][Next]_vars

\* The HTTP surface of one process during and after its startup.
GateNext ==
  \/ Startup
  \/ \E route \in Routes : RequestArrives(route)
  \/ auth_middleware
  \/ health
  \/ GatedHandler
  \/ get_current_user
  \/ HandlerBody
  \/ ResponseSent

GateSpec == Init /\ [][GateNext]_vars

\* The bare queue: clients calling the five operations of QueueService in
\* any order, two of them polling concurrently.
QueueInit ==
  /\ initPc = "done"
  /\ ready = set(Handle)
  /\ gateWriter = FALSE
  /\ req = IdleRequest
  /\ jobs = << >>
  /\ tickets = << >>
  /\ reports = << >>
  /\ wpc = [ w \in Workers |-> "poll" ]
  /\ wjob = [ w \in Workers |-> NoJob ]
  /\ wres = [ w \in Workers |-> NULL ]
  /\ up = IdleUpload
  /\ SideIdle

ApiEnqueue ==
  /\ Len(jobs) < MaxEnqueues
  /\ jobs' = enqueue(NoTicket)
  /\ UNCHANGED << gateVars, tickets, reports, workerVars, up, sideVars >>

\* dequeue by client w, first half (see WorkerDequeueSelect); a call that
\* finds nothing returns None at once.
ApiDequeueSelect(w) ==
  /\ wpc[w] = "poll"
  /\ dequeue_select # NoJob
  /\ wpc' = [wpc EXCEPT ![w] = "dequeue_update"]
  /\ wjob' = [wjob EXCEPT ![w] = dequeue_select]
  /\ UNCHANGED << gateVars, dbVars, wres, up, sideVars >>

\* dequeue by client w, second half: the row is returned to the client.
ApiDequeueUpdate(w) ==
  /\ wpc[w] = "dequeue_update"
  /\ jobs' = dequeue_update(wjob[w])
  /\ EndIteration(w, "poll")
  /\ UNCHANGED << gateVars, tickets, reports, up, sideVars >>

\* An UPDATE ... WHERE id = j waits for a row lock held on j.
ApiCompleteJob(j) ==
  /\ ~Locked(j)
  /\ jobs' = complete_job(j, JsonText)
  /\ UNCHANGED << gateVars, tickets, reports, workerVars, up, sideVars >>

ApiFailJob(j) ==
  /\ ~Locked(j)
  /\ jobs[j].retry_count < MaxRetries
  /\ jobs' = fail_job(j, AnalysisFailed)
  /\ UNCHANGED << gateVars, tickets, reports, workerVars, up, sideVars >>

ApiRetryJob(j) ==
  /\ ~Locked(j)
  /\ jobs' = retry_job(j)
  /\ UNCHANGED << gateVars, tickets, reports, workerVars, up, sideVars >>

QueueNext ==
  \/ ApiEnqueue
  \/ \E w \in Workers : ApiDequeueSelect(w)
  \/ \E w \in Workers : ApiDequeueUpdate(w)
  \/ \E j \in JobIds : ApiCompleteJob(j)
  \/ \E j \in JobIds : ApiFailJob(j)
  \/ \E j \in JobIds : ApiRetryJob(j)

QueueSpec == QueueInit /\ [][QueueNext]_vars

\* The pipeline when no statement and no temp file fails, under the
\* scheduling the runtime gives: every worker loop that can step does
\* (tokio runs the spawned task, sleeps end), a crashed peer is started
\* again, an upload in flight runs on, startup runs on. Peers may crash at
\* any point.
WorkerRun(w) ==
  \/ WorkerDequeueSelect(w)
  \/ WorkerDequeueUpdate(w)
  \/ WorkerDownloadFails(w)
  \/ WorkerAnalysisOk(w)
  \/ WorkerAnalysisFails(w)
  \/ WorkerFailJob(w)
  \/ WorkerMarkFailed(w)
  \/ WorkerCompleteJob(w)
  \/ WorkerMarkAnalyzed(w)
  \/ WorkerCreateReport(w)
  \/ WorkerWake(w)

CrashNext ==
  \/ Startup
  \/ \E w \in Workers : WorkerRun(w)
  \/ \E w \in Workers : Crash(w)
  \/ \E w \in Workers : Restart(w)
  \/ CreateTicket
  \/ Upload

CrashSpec ==
  /\ Init
  /\ [][CrashNext]_vars
  /\ \A w \in Workers : WF_vars(WorkerRun(w))
  /\ \A w \in Workers : WF_vars(Restart(w))
  /\ WF_vars(Upload)
  /\ WF_vars(InitStepOk \/ SetAcquire \/ SetStore \/ SetWrite \/ SpawnWorker)

\* One process on its own, after its startup: its worker loop, with every
\* failure a statement, the download, the temp file or the analysis can
\* have, the uploads of its clients and external retries. The runtime
\* keeps the spawned worker task running: a step the loop can take is
\* taken (calls return, sleeps end).
LoopNext ==
  \/ WorkerStep(LocalWorker)
  \/ CreateTicket
  \/ Upload
  \/ \E j \in JobIds : RetryJob(j)

LoopSpec ==
  /\ QueueInit
  /\ [][LoopNext]_vars
  /\ WF_vars(WorkerStep(LocalWorker))

\* The same process when its clients upload to a ticket more than once
\* (upload_video accepts a ticket in any status).
Reupload ==
  \/ \E t \in TicketIds : Len(jobs) < MaxUploads /\ UploadBegin(t)
  \/ UploadEnqueue
  \/ UploadLink

\* The report step when the ticket already has a report and the reports
\* table allows one row per recording_id (the schema is not part of the
\* sources): the INSERT is refused, the Err is logged and dropped.
WorkerCreateReportConflict(w) ==
  /\ wpc[w] = "create_report"
  /\ extract_analysis_json(wres[w]) # NULL
  /\ \E i \in DOMAIN reports : reports[i] = TicketOf(wjob[w])
  /\ EndIteration(w, "poll")
  /\ UNCHANGED << gateVars, dbVars, up, sideVars >>

\* The worker loop with a database and a disk that do not fail: the
\* iterations end as the download and the analysis decide.
ReuploadWorkerStep(w) ==
  \/ WorkerDequeueSelect(w)
  \/ WorkerDequeueUpdate(w)
  \/ WorkerDownloadFails(w)
  \/ WorkerAnalysisOk(w)
  \/ WorkerAnalysisFails(w)
  \/ WorkerFailJob(w)
  \/ WorkerMarkFailed(w)
  \/ WorkerCompleteJob(w)
  \/ WorkerMarkAnalyzed(w)
  \/ WorkerCreateReportConflict(w)
  \/ WorkerCreateReport(w)
  \/ WorkerWake(w)

ReuploadNext ==
  \/ ReuploadWorkerStep(LocalWorker)
  \/ CreateTicket
  \/ Reupload
  \/ \E j \in JobIds : RetryJob(j)

ReuploadSpec == QueueInit /\ [][ReuploadNext]_vars

\* ----------------------------------------------------------------- claims

\* Poller w has claimed a job (its sub-select holds the row lock, or dequeue
\* has returned the row) and has not yet written the terminal status.
Claimed(w) ==
  wpc[w] \in { "dequeue_update", "process", "fail_job", "complete_job" }

\* C1: under any interleaving of concurrent dequeue calls, a Pending job is
\* handed to exactly one caller: a sub-select never takes a row another
\* caller has locked or holds, a caller that finds every Pending row locked
\* gets None (it neither waits nor fails), and no job is ever held in
\* Processing by two pollers at once.
C1_NoDoubleClaim ==
  [][ \A w \in Workers :
        /\ (wpc[w] = "poll" /\ wpc'[w] = "dequeue_update") =>
             /\ jobs[wjob'[w]].status = "Pending"
             /\ \A v \in Workers \ {w} : ~(Claimed(v) /\ wjob[v] = wjob'[w])
        /\ (wpc[w] = "poll" /\ wpc'[w] \in { "dequeue_update", "sleep_idle" }
              /\ \A j \in JobIds : jobs[j].status = "Pending" => Locked(j))
           =>
             (wpc'[w] = "sleep_idle" /\ wjob'[w] = NoJob)
        /\ \A v \in Workers \ {w} :
             (Claimed(w) /\ Claimed(v))' => wjob'[w] # wjob'[v]
        /\ (wpc'[w] \in { "process", "fail_job", "complete_job" }) =>
             jobs'[wjob'[w]].status = "Processing" ]_vars

\* Two pollers and one job: one has claimed it, the other sleeps after a
\* None.
C1_Witness ==
  /\ Len(jobs) = 1
  /\ \E w \in Workers : \E v \in Workers \ {w} :
       /\ Claimed(w) /\ wjob[w] = 1
       /\ wpc[v] = "sleep_idle"

\* C2: a dequeue that runs without contention (no row is locked by another
\* call) takes the Pending job with the oldest creation time, so successive
\* dequeues return the jobs in creation order.
C2_OldestFirst ==
  [][ \A w \in Workers :
        (wpc[w] = "poll" /\ wpc'[w] = "dequeue_update"
           /\ \A k \in JobIds : ~Locked(k)) =>
          \A k \in JobIds :
            jobs[k].status = "Pending" =>
              jobs[wjob'[w]].created_at <= jobs[k].created_at ]_vars

\* Two Pending jobs, and a dequeue has taken the older one.
C2_Witness ==
  /\ Len(jobs) >= 2
  /\ jobs[1].status = "Pending" /\ jobs[2].status = "Pending"
  /\ \E w \in Workers : wpc[w] = "dequeue_update" /\ wjob[w] = 1

\* C3: a job whose claiming worker died before complete or fail is claimed
\* again and processed: every job that is Processing eventually is Completed
\* or Failed.
C3_ProcessingJobFinishes ==
  \A j \in 1..MaxJobs :
    (j \in JobIds /\ jobs[j].status = "Processing")
      ~> (j \in JobIds /\ jobs[j].status \in { "Completed", "Failed" })

\* C4: whatever calls are made on the queue, the status of a job changes
\* only along Pending -> Processing -> Completed or Failed, and Failed ->
\* Pending; complete and fail leave the status of a Pending, Completed or
\* Failed job alone.
C4_StatusMovesForward ==
  [][ \A j \in JobIds :
        jobs'[j].status # jobs[j].status =>
          << jobs[j].status, jobs'[j].status >> \in
            { << "Pending", "Processing" >>,
              << "Processing", "Completed" >>,
              << "Processing", "Failed" >>,
              << "Failed", "Pending" >> } ]_vars

\* C5: for every ticket linked to a job, the ticket status mirrors the job
\* status (Processing - processing, Completed - analyzed, Failed - failed).
\* Stated for the states in which no worker is at work on the job, which
\* asks less than the claim does.
C5_TicketMirrorsJob ==
  \A t \in TicketIds :
    LET j == tickets[t].analysis_job_id
    IN (j # NoJob /\ \A w \in Workers : wjob[w] # j) =>
         /\ jobs[j].status = "Processing" => tickets[t].status = "processing"
         /\ jobs[j].status = "Completed" => tickets[t].status = "analyzed"
         /\ jobs[j].status = "Failed" => tickets[t].status = "failed"

\* One step of the HTTP surface.
ServeStep ==
  \/ \E route \in Routes : RequestArrives(route)
  \/ auth_middleware
  \/ health
  \/ GatedHandler
  \/ get_current_user
  \/ HandlerBody
  \/ ResponseSent

\* C6: once background initialization has failed, the init task is over
\* for good, set is never called and the gate stays unset, every response
\* is a 503 and no request reaches a service, the worker loop is never
\* started, and the process still serves requests.
C6_FailedInitLeavesGateUnset ==
  [][ initPc = "failed" =>
        /\ initPc' = "failed"
        /\ ready = NULL /\ ready' = NULL
        /\ ~gateWriter /\ ~gateWriter'
        /\ wpc[LocalWorker] = "not_started"
        /\ wpc'[LocalWorker] = "not_started"
        /\ req'.pc # "service" /\ ~req'.served
        /\ req'.pc = "respond" => req'.resp = 503
        /\ ENABLED ServeStep ]_vars

\* Initialization has failed and a request is being answered 503.
C6_Witness ==
  /\ initPc = "failed"
  /\ req.pc = "respond" /\ req.resp = 503

\* C7: get returns None until set has stored the handle and the handle ever
\* after; every request that obtained a handle obtained that one; the slot
\* changes only in set, and once it holds the handle it never changes again.
C7_GateMonotonic ==
  [][ /\ initPc \in { "connect", "migrate", "services", "set", "set_write",
                      "failed" } => get = NULL
      /\ initPc \in { "spawn_worker", "done" } => get = Some(Handle)
      /\ req.state # NULL => req.state = Some(Handle)
      /\ ready = Some(Handle) => ready' = ready
      /\ ready' # ready => initPc \in { "set_write", "set_release" } ]_vars

\* The gate is set and a handler runs with the handle it got from it.
C7_Witness ==
  /\ ready = Some(Handle)
  /\ req.pc = "service" /\ req.state = Some(Handle)

C9_FailureMarksJobAndTicket ==
  [][ /\ \A w \in Workers :
           /\ (wpc[w] = "process" /\ wpc'[w] = "fail_job") =>
                /\ wres'[w] \in { DownloadFailed, AnalysisFailed }
                /\ UNCHANGED dbVars
           /\ (wpc[w] = "fail_job" /\ wpc'[w] \in { "mark_failed", "poll" }) =>
                /\ jobs'[wjob[w]].status = "Failed"
                /\ jobs'[wjob[w]].error_message = Some(wres[w])
                /\ Len(jobs') = Len(jobs)
                /\ UNCHANGED << tickets, reports >>
                /\ wpc'[w] = "poll" <=> TicketOf(wjob[w]) = NoTicket
           /\ (wpc[w] = "mark_failed" /\ wpc'[w] = "poll") =>
                /\ tickets'[TicketOf(wjob[w])].status = "failed"
                /\ UNCHANGED << jobs, reports >>
      /\ \A j \in JobIds :
           (jobs[j].status = "Failed" /\ jobs'[j].status # "Failed") =>
             /\ jobs' = retry_job(j)
             /\ UNCHANGED workerVars ]_vars

\* A failed download has been handled: the job is Failed with the download
\* error, its ticket is failed, there is no report, and the worker that
\* handled it polls again.
C9_Witness ==
  /\ Len(jobs) = 1 /\ Len(tickets) = 1
  /\ jobs[1].status = "Failed"
  /\ jobs[1].error_message = Some(DownloadFailed)
  /\ tickets[1].status = "failed"
  /\ reports = << >>
  /\ wpc[LocalWorker] = "poll" /\ wjob[LocalWorker] = NoJob

\* C10: when no stage of the extraction finds JSON in the analysis text,
\* the report step adds no report and changes neither the job nor the
\* ticket: the job stays Completed with the raw text as its result, and
\* mark_analyzed, the step before, has made the ticket analyzed.
C10_NoJsonNoReport ==
  [][ \A w \in Workers :
        /\ (wpc[w] = "create_report" /\ wpc'[w] = "poll"
              /\ extract_analysis_json(wres[w]) = NULL) =>
             /\ UNCHANGED << reports, jobs, tickets >>
             /\ jobs[wjob[w]].status = "Completed"
             /\ jobs[wjob[w]].analysis_result = Some(wres[w])
        /\ (wpc[w] = "mark_analyzed" /\ wpc'[w] = "create_report") =>
             tickets'[TicketOf(wjob[w])].status = "analyzed" ]_vars

\* A job whose analysis was prose wrapped around a fenced block that is not
\* JSON has been through the report step: Completed, result stored, ticket
\* analyzed, no report.
C10_Witness ==
  /\ Len(jobs) = 1 /\ Len(tickets) = 1
  /\ jobs[1].status = "Completed"
  /\ jobs[1].analysis_result = Some(FencedProseText)
  /\ tickets[1].status = "analyzed"
  /\ reports = << >>
  /\ \A w \in Workers : wjob[w] = NoJob

\* C11: no failure of a job ends the worker loop: whatever an iteration met
\* (a failed download, temp file or analysis, a failed report step, a
\* statement error while the outcome was being recorded), the worker polls
\* the queue again.
C11_WorkerPollsAgain ==
  /\ [](wpc[LocalWorker] \in
          { "poll", "dequeue_update", "process", "fail_job", "mark_failed",
            "complete_job", "mark_analyzed", "create_report",
            "sleep_idle", "sleep_error" })
  /\ []<>(wpc[LocalWorker] = "poll")

\* A statement failed while the outcome of a claimed job was being
\* recorded: the job is still Processing and the loop sleeps before its next
\* poll.
C11_Witness ==
  /\ wpc[LocalWorker] = "sleep_error"
  /\ \E j \in JobIds : jobs[j].status = "Processing"

\* C12: fail_job on any job, in any status, with any error text makes that
\* job Failed, stores the text, stamps completed_at and adds exactly one to
\* retry_count; the other columns of the job and every other job stay as
\* they are.
C12_FailJobEffect ==
  \A j \in JobIds : \A error \in { DownloadFailed, AnalysisFailed } :
    LET after == fail_job(j, error)
    IN /\ Len(after) = Len(jobs)
       /\ after[j].status = "Failed"
       /\ after[j].error_message = Some(error)
       /\ after[j].completed_at
       /\ after[j].retry_count = jobs[j].retry_count + 1
       /\ after[j].recording_id = jobs[j].recording_id
       /\ after[j].created_at = jobs[j].created_at
       /\ after[j].started_at = jobs[j].started_at
       /\ after[j].analysis_result = jobs[j].analysis_result
       /\ \A k \in JobIds \ {j} : after[k] = jobs[k]

\* fail_job has run on the second of two jobs, after its dequeue; the first
\* is as enqueue left it.
C12_Witness ==
  /\ Len(jobs) = 2
  /\ jobs[1] = [ NewJob(NoTicket) EXCEPT !.created_at = 1 ]
  /\ jobs[2].status = "Failed"
  /\ jobs[2].error_message = Some(AnalysisFailed)
  /\ jobs[2].completed_at /\ jobs[2].started_at
  /\ jobs[2].retry_count = 1

\* C13: in the state a fail_job call leaves, retry_job on the same job gives
\* a Pending job with error_message and started_at cleared, whose
\* retry_count is the one fail_job left (one more than before the fail): the
\* retry adds nothing to it, and changes no other job.
C13_FailThenRetry ==
  [][ \A j \in JobIds : \A error \in { DownloadFailed, AnalysisFailed } :
        jobs' = fail_job(j, error) =>
          LET failed == jobs'
              retried == retry_job(j)'
          IN /\ retried[j].status = "Pending"
             /\ retried[j].error_message = NULL
             /\ retried[j].started_at = FALSE
             /\ retried[j].retry_count = jobs[j].retry_count + 1
             /\ retried[j].retry_count = failed[j].retry_count
             /\ \A k \in JobIds \ {j} : retried[k] = jobs[k] ]_vars

\* A job that was dequeued, failed and retried: Pending again, error and
\* started_at cleared, one failure counted.
C13_Witness ==
  \E j \in JobIds :
    /\ jobs[j].status = "Pending"
    /\ jobs[j].error_message = NULL
    /\ ~jobs[j].started_at
    /\ jobs[j].completed_at
    /\ jobs[j].retry_count = 1

\* C14: retry_job on a job that is Pending, Processing or Completed, or on
\* an id that names no job, changes nothing.
C14_RetryOnlyFailed ==
  \A j \in 1..(Len(jobs) + 1) :
    (j \notin JobIds \/ jobs[j].status # "Failed") => retry_job(j) = jobs

\* A Completed job and a Processing job, both with started_at stamped, in a
\* queue on which retry_job is being called.
C14_Witness ==
  /\ Len(jobs) = 2
  /\ jobs[1].status = "Completed" /\ jobs[1].started_at
  /\ jobs[2].status = "Processing" /\ jobs[2].started_at
  /\ ENABLED ApiRetryJob(1) /\ ENABLED ApiRetryJob(2)

AtGateRead ==
  \/ req.pc = "middleware"
  \/ req.pc = "handler" /\ req.route # "me"

\* C16: a get that runs while set is under way never sees the slot half
\* written: the slot is in that state only while set holds the write guard,
\* every read of the gate finds None or the handle, and what a request
\* takes away from its read is what the slot held.
C16_GetNeverTorn ==
  [][ /\ ready = Torn => gateWriter
      /\ req.state \in { NULL, Some(Handle) }
      /\ (AtGateRead /\ req' # req) =>
           /\ get \in { NULL, Some(Handle) }
           /\ req'.state \in { NULL, get } ]_vars

\* A request is waiting at its read of the gate while the store of set is
\* half done.
C16_Witness ==
  /\ initPc = "set_release" /\ ready = Torn /\ gateWriter
  /\ AtGateRead

\* The position of the init task in its one pass.
InitRank(pc) ==
  CASE pc = "connect" -> 0
    [] pc = "migrate" -> 1
    [] pc = "services" -> 2
    [] pc = "set" -> 3
    [] pc = "set_write" -> 4
    [] pc = "set_release" -> 5
    [] pc = "spawn_worker" -> 6
    [] pc = "done" -> 7
    [] pc = "failed" -> 8

\* C17: the init task makes one pass: set is entered only after connect,
\* migrations and service construction have succeeded one after the other,
\* the task never comes back to a position before or in set once set has
\* returned, a task that failed never reaches set, and a task that is done
\* has called set.
C17_SetOnceAfterInit ==
  [][ /\ (initPc' # initPc /\ initPc' # "failed") =>
           InitRank(initPc') = InitRank(initPc) + 1
      /\ (initPc' = "failed" /\ initPc # "failed") =>
           initPc \in { "connect", "migrate", "services" }
      /\ (initPc' = "set_write" /\ initPc # "set_write") => ready = NULL
      /\ initPc' = "done" => ready' = Some(Handle) ]_vars

\* Initialization went through: set has run and the task is done.
C17_Witness ==
  /\ initPc = "done"
  /\ ready = Some(Handle) /\ ~gateWriter

\* C18 as stated: in every state, the states in which set is in progress
\* included, a request at a read of the gate can complete that read.
C18_GetNeverBlocks ==
  AtGateRead => ENABLED ServeStep

\* C18 as the code has it: get never fails and waits for nothing but the
\* write guard of set: whenever that guard is free a request at a read of
\* the gate can complete it with None or the handle, and the guard is held
\* only for the store of set, which can always finish.
C18_GetWaitsOnlyForStore ==
  /\ (AtGateRead /\ CanRead) =>
       /\ ENABLED ServeStep
       /\ get \in { NULL, Some(Handle) }
  /\ gateWriter =>
       /\ initPc \in { "set_write", "set_release" }
       /\ ENABLED (SetStore \/ SetWrite)

\* A request at a read of the gate waits while set holds the write guard.
C18_Witness ==
  /\ gateWriter /\ initPc = "set_write"
  /\ AtGateRead /\ ~ENABLED ServeStep

\* The rows of reports whose recording_id is the ticket.
ReportsOf(t) == Cardinality({ i \in DOMAIN reports : reports[i] = t })

\* C19 as stated: whatever uploads, worker iterations and retries have
\* happened, a ticket has at most one report, and as many reports as it has
\* successful analyses: jobs that are Completed with a result that holds a
\* JSON object and that no worker has in hand any more.
C19_OneReportPerAnalysis ==
  \A t \in DOMAIN tickets :
    /\ ReportsOf(t) <= 1
    /\ ReportsOf(t) =
         Cardinality({ j \in JobIds :
           /\ jobs[j].recording_id = t
           /\ jobs[j].status = "Completed"
           /\ extract_analysis_json(jobs[j].analysis_result[1]) # NULL
           /\ \A w \in Workers : wjob[w] # j })

\* The authenticated callers of the dashboard API: one internal user and
\* two customers.
Users ==
  { [ id |-> "u1", role |-> "Internal" ],
    [ id |-> "c1", role |-> "Customer" ],
    [ id |-> "c2", role |-> "Customer" ] }

\* User::is_internal.
is_internal(user) == user.role = "Internal"

\* The customer_id column of a ticket, written once by the INSERT of
\* create_from_widget: the customers submit in turn.
customer_id(t) == IF t % 2 = 1 THEN "c1" ELSE "c2"

\* TicketService::get_by_id: fetch_optional on the id.
get_by_id(id) == IF id \in TicketIds THEN Some(id) ELSE NULL

\* AppError as into_response renders it: status, code, message.
not_found(msg) == [ status |-> 404, code |-> "NOT_FOUND", message |-> msg ]
forbidden == [ status |-> 403, code |-> "FORBIDDEN", message |-> "Access denied" ]

\* get_report answering a missing report like a missing ticket.
get_report_one_message(id, user) ==
  IF get_by_id(id) = NULL THEN not_found("Ticket not found")
  ELSE IF ~is_internal(user) /\ customer_id(id) # user.id THEN forbidden
  ELSE IF ReportsOf(id) = 0 THEN not_found("Ticket not found")
  ELSE [ status |-> 200, code |-> "OK", message |-> "report" ]

\* controllers::ticket::get_report behind an open gate, for an authenticated
\* caller: the ticket lookup, the ownership check, the report lookup.
get_report(id, user) ==
  IF get_by_id(id) = NULL THEN not_found("Ticket not found")
  ELSE IF ~is_internal(user) /\ customer_id(id) # user.id THEN forbidden
  ELSE IF ReportsOf(id) = 0
    THEN not_found("Report not found - analysis may still be processing")
  ELSE [ status |-> 200, code |-> "OK", message |-> "report" ]

\* C20 as stated: for every caller, report-fetch answers "may still be
\* processing" whenever the ticket is Analyzed and has no report, and
\* "Ticket not found" when the id names no ticket.
C20_ReportFetchErrors ==
  \A id \in 1..(Len(tickets) + 1) : \A user \in Users :
    /\ id \notin TicketIds =>
         get_report(id, user) = not_found("Ticket not found")
    /\ (id \in TicketIds /\ tickets[id].status = "analyzed"
                         /\ ReportsOf(id) = 0) =>
         get_report(id, user) =
           not_found("Report not found - analysis may still be processing")

\* C20 for the callers the handler lets through: report-fetch answers
\* "Ticket not found" to every caller when the id names no ticket; when the
\* ticket is Analyzed and has no report it answers "may still be
\* processing" to an internal user and to the customer who owns the ticket,
\* and 403 to any other customer; the two not-found answers carry the same
\* status and code and differ by their message.
C20_ReportFetchErrorsForOwner ==
  \A id \in 1..(Len(tickets) + 1) : \A user \in Users :
    /\ id \notin TicketIds =>
         get_report(id, user) = not_found("Ticket not found")
    /\ (id \in TicketIds /\ tickets[id].status = "analyzed"
                         /\ ReportsOf(id) = 0) =>
         IF is_internal(user) \/ customer_id(id) = user.id
         THEN /\ get_report(id, user).status = 404
              /\ get_report(id, user).message =
                   "Report not found - analysis may still be processing"
              /\ get_report(id, user) # not_found("Ticket not found")
         ELSE get_report(id, user) = forbidden

\* The worker is done with a ticket that is Analyzed and has no report: its
\* owner is told the report may still be processing, a stranger is refused,
\* and the next id names no ticket.
C20_Witness ==
  \E id \in TicketIds :
    /\ tickets[id].status = "analyzed" /\ ReportsOf(id) = 0
    /\ wpc[LocalWorker] = "poll"
    /\ \E user \in Users :
         /\ customer_id(id) = user.id
         /\ get_report(id, user).message =
              "Report not found - analysis may still be processing"
    /\ \E user \in Users : get_report(id, user) = forbidden
    /\ get_report(Len(tickets) + 1, [ id |-> "u1", role |-> "Internal" ])
         = not_found("Ticket not found")

\* The worker loop is between two iterations: about to poll, or in one of
\* its sleeps.
AtIterationBoundary(w) == wpc[w] \in { "poll", "sleep_idle", "sleep_error" }

\* C26 as stated: whichever step of an iteration failed, at the iteration
\* boundary the job the worker had claimed is Completed or Failed: with one
\* worker loop, no job is Processing while the loop is between iterations.
C26_NoProcessingAtBoundary ==
  AtIterationBoundary(LocalWorker) =>
    \A j \in JobIds : jobs[j].status # "Processing"

\* C27 as stated: a dequeue that returns a storage error ends the worker
\* loop: a poll that neither finds the queue empty nor claims a job leaves
\* the loop stopped.
C27_DequeueErrorStopsLoop ==
  [][ ( /\ wpc[LocalWorker] \in { "poll", "dequeue_update" }
        /\ wpc'[LocalWorker] \notin { "poll", "dequeue_update", "process",
                                      "sleep_idle" } )
      => wpc'[LocalWorker] = "stopped" ]_vars

\* C29: the worker reaches complete_job, mark_analyzed and the report step
\* in that order; a report row is inserted only by a worker at the report
\* step, for the ticket of the job it holds, and that job is then Completed
\* with the raw result the worker holds; the ticket was marked Analyzed by
\* the step that brought the worker to the report step.
C29_ReportAfterCompletedAndAnalyzed ==
  [][ /\ \A w \in Workers :
           /\ (wpc'[w] = "mark_analyzed" /\ wpc[w] # "mark_analyzed") =>
                /\ wpc[w] = "complete_job"
                /\ jobs'[wjob[w]].status = "Completed"
                /\ jobs'[wjob[w]].analysis_result = Some(wres[w])
           /\ (wpc'[w] = "create_report" /\ wpc[w] # "create_report") =>
                /\ wpc[w] = "mark_analyzed"
                /\ tickets'[TicketOf(wjob[w])].status = "analyzed"
                /\ jobs[wjob[w]].status = "Completed"
      /\ reports' # reports =>
           \E w \in Workers :
             /\ wpc[w] = "create_report"
             /\ reports' = Append(reports, TicketOf(wjob[w]))
             /\ jobs[wjob[w]].status = "Completed"
             /\ jobs[wjob[w]].analysis_result = Some(wres[w])
             /\ extract_analysis_json(wres[w]) # NULL ]_vars

\* A report has been inserted for a ticket whose job is Completed.
C29_Witness ==
  /\ Len(reports) = 1
  /\ AtIterationBoundary(LocalWorker)
  /\ \E j \in JobIds :
       /\ jobs[j].recording_id = reports[1]
       /\ jobs[j].status = "Completed"
       /\ jobs[j].analysis_result # NULL

\* ------------------------------------------- the report, stored and read

\* The pipeline behind an open gate with nothing in it.
CoreAtRest ==
  /\ initPc = "done"
  /\ ready = set(Handle)
  /\ gateWriter = FALSE
  /\ req = IdleRequest
  /\ jobs = << >>
  /\ tickets = << >>
  /\ reports = << >>
  /\ wpc = [ w \in Workers |-> "poll" ]
  /\ wjob = [ w \in Workers |-> NoJob ]
  /\ wres = [ w \in Workers |-> NULL ]
  /\ up = IdleUpload

\* serde_json::Value, as far as the report fields look at it: strings,
\* arrays, and the other kinds (number, null, object); the kind absent is a
\* key the analysis object does not have.
JString(x) == [ kind |-> "string", s |-> x ]
JArray(items) == [ kind |-> "array", items |-> items ]
JOther(kind) == [ kind |-> kind ]

\* The values the model gives to a field of the analysis: every array of at
\* most MaxItems elements (strings, numbers, objects), a bare string, a
\* number, null, an object, or no value at all.
FieldValues ==
  LET JsonItems == { JString("a"), JString("b"), JOther("number"),
                     JOther("object") }
  IN ( UNION { { JArray(items) : items \in [ 1..n -> JsonItems ] } :
               n \in 0..MaxItems } )
     \cup { JString("a"), JOther("number"), JOther("null"),
            JOther("object"), JOther("absent") }

\* The semi-structured fields: three of the report, four of an issue.
ReportFields == { "question_analysis", "suggested_actions", "possible_solutions" }
IssueFields == { "tags", "impact", "reproduction_steps", "screenshots" }

\* The analyses that depart in one field from an analysis as the model
\* asked for it, with one issue.
Analyses ==
  LET CanonicalAnalysis ==
        [ question_analysis |-> JArray(<< JOther("object") >>),
          suggested_actions |-> JArray(<< JString("a") >>),
          possible_solutions |-> JArray(<< JString("a") >>),
          tags |-> JArray(<< JString("a") >>),
          impact |-> JArray(<< JString("a") >>),
          reproduction_steps |-> JArray(<< JString("a") >>),
          screenshots |-> JArray(<< JString("a") >>) ]
  IN { [ CanonicalAnalysis EXCEPT ![f] = v ] :
         f \in ReportFields \cup IssueFields, v \in FieldValues }

\* parsed.get(key).cloned().unwrap_or(Value::Array(vec![])): what
\* create_report_from_analysis binds for a JSON column.
json_column(v) == IF v = JOther("absent") THEN JArray(<< >>) ELSE v

\* Decoding a JSON column as Json<Vec<String>>: an array of strings decodes
\* to their list, anything else is a decode error.
decode_vec_string(v) ==
  IF v.kind = "array" /\ \A i \in DOMAIN v.items : v.items[i].kind = "string"
  THEN Some([ i \in DOMAIN v.items |-> v.items[i].s ])
  ELSE NULL

\* string_array_from_value that drops a bare string.
string_array_from_value_arrays_only(value) ==
  IF value.kind = "array"
  THEN LET strs == SelectSeq(value.items, LAMBDA v : v.kind = "string")
       IN [ i \in DOMAIN strs |-> strs[i].s ]
  ELSE << >>

\* models::report::string_array_from_value.
string_array_from_value(value) ==
  IF value.kind = "array"
  THEN LET strs == SelectSeq(value.items, LAMBDA v : v.kind = "string")
       IN [ i \in DOMAIN strs |-> strs[i].s ]
  ELSE IF value.kind = "string" THEN << value.s >>
  ELSE << >>

\* models::report::question_analysis_from_value: the elements of an array
\* that deserialize as QuestionAnalysis (the objects of the model), a bare
\* string as the answer of one entry, anything else as no entry.
question_analysis_from_value(value) ==
  IF value.kind = "array"
  THEN SelectSeq(value.items, LAMBDA v : v.kind = "object")
  ELSE IF value.kind = "string" THEN << [ answer |-> value.s ] >>
  ELSE << >>

\* create_report_from_analysis: the INSERT INTO reports and the INSERT INTO
\* issues, the JSON columns bound as the analysis has them.
ReportInsert ==
  /\ rep.pc = "parsed"
  /\ rep' = [ pc |-> "stored",
              analysis |-> rep.analysis,
              report |->
                [ f \in ReportFields |-> json_column(rep.analysis[f]) ],
              issue |->
                [ f \in IssueFields |-> json_column(rep.analysis[f]) ] ]
  /\ UNCHANGED << gateVars, dbVars, workerVars, up, stage, disk, ext >>

\* get_report, the report row does not decode as models::Report
\* (suggested_actions is Json<Vec<String>>): the ? turns the sqlx error
\* into AppError::Database, a 500.
GetReportDecodeError ==
  /\ rep.pc = "stored"
  /\ decode_vec_string(rep.report.suggested_actions) = NULL
  /\ rep' = [ pc |-> "done", analysis |-> rep.analysis,
              report |-> rep.report, issue |-> rep.issue,
              resp |-> [ status |-> 500, code |-> "DATABASE_ERROR" ] ]
  /\ UNCHANGED << gateVars, dbVars, workerVars, up, stage, disk, ext >>

\* build_report_response: the report and its issue as the API returns them.
build_report_response(report, issue) ==
  [ status |-> 200, code |-> "OK",
    question_analysis |-> question_analysis_from_value(report.question_analysis),
    suggested_actions |-> decode_vec_string(report.suggested_actions)[1],
    possible_solutions |-> string_array_from_value(report.possible_solutions),
    tags |-> string_array_from_value(issue.tags),
    impact |-> string_array_from_value(issue.impact),
    reproduction_steps |-> string_array_from_value(issue.reproduction_steps),
    screenshots |-> string_array_from_value(issue.screenshots) ]

\* get_report, the rows decode: the response is built from them.
GetReportOk ==
  /\ rep.pc = "stored"
  /\ decode_vec_string(rep.report.suggested_actions) # NULL
  /\ rep' = [ pc |-> "done", analysis |-> rep.analysis,
              report |-> rep.report, issue |-> rep.issue,
              resp |-> build_report_response(rep.report, rep.issue) ]
  /\ UNCHANGED << gateVars, dbVars, workerVars, up, stage, disk, ext >>

\* One analysis stored by the worker and fetched through the API.
ReportInit ==
  /\ CoreAtRest
  /\ stage = Idle /\ disk = Idle /\ ext = Idle
  /\ rep \in { [ pc |-> "parsed", analysis |-> a ] : a \in Analyses }

ReportSpec ==
  /\ ReportInit
  /\ [][ReportInsert \/ GetReportDecodeError \/ GetReportOk]_vars

\* C22 as stated: a report whose suggested_actions came as a bare string is
\* stored, and reading it back succeeds with the string as a one-element
\* list.
C22_BareStringSuggestedActions ==
  (rep.pc = "done" /\ rep.analysis.suggested_actions.kind = "string") =>
    /\ rep.resp.status = 200
    /\ rep.resp.suggested_actions = << rep.analysis.suggested_actions.s >>

\* C23: string_array_from_value maps an array to its string elements in
\* their order, a bare string to the list of that string, and every other
\* value to the empty list; the four issue fields of a report response are
\* that function of what the analysis had (the empty list for a missing
\* key).
C23_StringArrayNormalization ==
  /\ \A v \in FieldValues \ { JOther("absent") } :
       LET r == string_array_from_value(v)
       IN /\ v.kind = "string" => r = << v.s >>
          /\ v.kind \notin { "string", "array" } => r = << >>
          /\ v.kind = "array" =>
               LET strs == { i \in DOMAIN v.items : v.items[i].kind = "string" }
               IN /\ Len(r) = Cardinality(strs)
                  /\ \A i \in strs :
                       r[Cardinality({ k \in strs : k <= i })] = v.items[i].s
  /\ (rep.pc = "done" /\ rep.resp.status = 200) =>
       \A f \in IssueFields :
         rep.resp[f] = string_array_from_value(json_column(rep.analysis[f]))

\* A report was read back whose issue has as impact an array with a string
\* after a number: the response has the string alone.
C23_Witness ==
  /\ rep.pc = "done" /\ rep.resp.status = 200
  /\ rep.analysis.impact = JArray(<< JOther("number"), JString("b") >>)
  /\ rep.resp.impact = << "b" >>

\* ------------------------------------------------ the extractor on fences

\* The JSON texts of nesting depth at most d, in compact form.
RECURSIVE JsonTextsOfDepth(_)
JsonTextsOfDepth(d) ==
  IF d = 0 THEN { << "s" >>, << "s~" >>, << "{", "}" >> }
  ELSE JsonTextsOfDepth(0) \cup
       { << "{", k, ":" >> \o v \o << "}" >> :
           k \in { "s", "s~" }, v \in JsonTextsOfDepth(d - 1) }

\* The valid JSON texts the extractor is given: those of depth MaxDepth
\* and the same texts with a newline inside their outer braces.
JsonTexts ==
  JsonTextsOfDepth(MaxDepth) \cup
  { IF Len(j) >= 2 /\ j[1] = "{"
    THEN << "{", "nl" >> \o SubSeq(j, 2, Len(j) - 1) \o << "nl", "}" >>
    ELSE j : j \in JsonTextsOfDepth(MaxDepth) }

\* The extractor is given the text raw.
ExtractRaw ==
  /\ ext.pc \in { "input", "fenced" }
  /\ ext' = [ ext EXCEPT !.pc = IF ext.pc = "input" THEN "raw" ELSE "done",
                         !.raw = extract_analysis_json(ext.json) ]
  /\ UNCHANGED << gateVars, dbVars, workerVars, up, stage, disk, rep >>

\* The extractor is given the text in its fence.
ExtractFenced ==
  /\ ext.pc \in { "input", "raw" }
  /\ ext' = [ ext EXCEPT
                !.pc = IF ext.pc = "input" THEN "fenced" ELSE "done",
                !.fenced = extract_analysis_json(
                             << ext.marker >> \o ext.before \o ext.json
                               \o ext.after \o << "~~~" >>) ]
  /\ UNCHANGED << gateVars, dbVars, workerVars, up, stage, disk, rep >>

\* One JSON text and one way of fencing it: the marker of the opening fence
\* in one of three letter cases, and between a fence and the JSON a
\* newline, a space or nothing.
ExtractInit ==
  /\ CoreAtRest
  /\ stage = Idle /\ disk = Idle /\ rep = Idle
  /\ ext \in { [ pc |-> "input", json |-> j, marker |-> m, before |-> b,
                 after |-> a, raw |-> NULL, fenced |-> NULL ] :
               j \in JsonTexts, m \in { "~~~json", "~~~JSON", "~~~Json" },
               b \in { << "nl" >>, << "sp" >>, << >> },
               a \in { << "nl" >>, << "sp" >>, << >> } }

ExtractSpec == ExtractInit /\ [][ExtractRaw \/ ExtractFenced]_vars

C34_AnyCaseMarkerExtractsSame ==
  ext.pc = "done" =>
    ext.fenced = extract_analysis_json(
                   << "~~~json" >> \o ext.before \o ext.json
                     \o ext.after \o << "~~~" >>)

\* ------------------------------------------------------- LocalStorage

\* The data of the g-th put, n chunks long: each chunk carries g.
PutData(g, n) == [ i \in 1..n |-> g ]

\* LocalStorage::upload, File::create: the file is created, or truncated
\* when it exists.
PutCreate(n) ==
  /\ disk.put = 0
  /\ disk.puts < MaxPuts
  /\ disk' = [ disk EXCEPT !.exists = TRUE,
                           !.file = << >>,
                           !.puts = disk.puts + 1,
                           !.put = disk.puts + 1,
                           !.data = PutData(disk.puts + 1, n) ]
  /\ UNCHANGED << gateVars, dbVars, workerVars, up, stage, rep, ext >>

\* write_all: one more chunk reaches the file; after the last one upload
\* returns Ok.
PutWrite ==
  /\ disk.put # 0
  /\ LET next == Len(disk.file) + 1
     IN disk' = [ disk EXCEPT
                    !.file = Append(disk.file, disk.data[next]),
                    !.put = IF next = Len(disk.data) THEN 0 ELSE disk.put,
                    !.completed = IF next = Len(disk.data)
                                  THEN Append(disk.completed, disk.data)
                                  ELSE disk.completed ]
  /\ UNCHANGED << gateVars, dbVars, workerVars, up, stage, rep, ext >>

\* write_all fails (disk full): upload returns Err, the file stays as far
\* as it was written.
PutWriteFails ==
  /\ disk.put # 0
  /\ disk' = [ disk EXCEPT !.put = 0 ]
  /\ UNCHANGED << gateVars, dbVars, workerVars, up, stage, rep, ext >>

\* LocalStorage::download, File::open: succeeds when the file exists.
GetOpen ==
  /\ disk.get = "idle"
  /\ disk.exists
  /\ disk' = [ disk EXCEPT !.get = "open" ]
  /\ UNCHANGED << gateVars, dbVars, workerVars, up, stage, rep, ext >>

\* read_to_end: the bytes of the file as it is now; download returns them.
GetRead ==
  /\ disk.get = "open"
  /\ disk' = [ disk EXCEPT !.get = "done", !.result = disk.file ]
  /\ UNCHANGED << gateVars, dbVars, workerVars, up, stage, rep, ext >>

\* The caller of download starts another.
GetAgain ==
  /\ disk.get = "done"
  /\ disk' = [ disk EXCEPT !.get = "idle", !.result = << >> ]
  /\ UNCHANGED << gateVars, dbVars, workerVars, up, stage, rep, ext >>

\* One path of the local store, at first without a file, a client that
\* puts and a client that gets.
StorageInit ==
  /\ CoreAtRest
  /\ stage = Idle /\ rep = Idle /\ ext = Idle
  /\ disk = [ exists |-> FALSE, file |-> << >>, puts |-> 0, put |-> 0,
              data |-> << >>, completed |-> << >>, get |-> "idle",
              result |-> << >> ]

StorageNext ==
  \/ \E n \in 1..MaxChunks : PutCreate(n)
  \/ PutWrite
  \/ PutWriteFails
  \/ GetOpen
  \/ GetRead
  \/ GetAgain

StorageSpec == StorageInit /\ [][StorageNext]_vars

\* C25 as stated: what a get returns, during a put to the path or after
\* it, is never a truncated or partly written file: it is the whole data
\* of a put, and once a put has completed it is not shorter than what the
\* last completed put wrote.
C25_GetNeverTruncated ==
  disk.get = "done" =>
    /\ \E g \in 1..disk.puts : \E n \in 1..MaxChunks :
         disk.result = PutData(g, n)
    /\ disk.completed # << >> =>
         Len(disk.result) >= Len(disk.completed[Len(disk.completed)])

\* --------------------------------------------------- The analysis stage

\* gemini_service.rs, MAX_SIZE_MB: the ceiling of analyze, in units of
\* 1024 * 1024 bytes.
MAX_SIZE_MB == 20

\* The divisor of size_mb: bytes.len() as f64 / (1024.0 * 1024.0).
MB == 1048576

\* Lengths in bytes of the recordings a download returns: empty, small,
\* 20,000,001 bytes, and the lengths around the ceiling.
VideoSizes ==
  { 0, 1, 20000001, MAX_SIZE_MB * MB - 1, MAX_SIZE_MB * MB,
    MAX_SIZE_MB * MB + 1, (MAX_SIZE_MB + 1) * MB }

\* size_mb > MAX_SIZE_MB. A length below 2^53 converts to f64 exactly and
\* the division by 2^20 only changes the exponent, so the comparison of
\* the two floats is the comparison of the length with 20 * 2^20.
too_large(len) == len > MAX_SIZE_MB * MB

\* Worker::default_prompt.
default_prompt == "default_prompt"

\* What a lookup by id can give: a failed statement, no row, the row; a
\* ticket may also have no project_id.
Lookups == { "error", "none", "found", "no_project_id" }

\* Worker::build_prompt_for_ticket: Err when tickets.get_by_id fails or
\* finds no row, Err when the ticket has a project and projects.get_by_id
\* fails; otherwise the ticket's prompt, with the project's questions when
\* the project is found.
build_prompt_for_ticket(ticket, project) ==
  IF ticket # "found" THEN [ ok |-> FALSE, prompt |-> NULL ]
  ELSE IF project = "error" THEN [ ok |-> FALSE, prompt |-> NULL ]
  ELSE IF project = "found"
       THEN [ ok |-> TRUE, prompt |-> Some("ticket_prompt_with_questions") ]
       ELSE [ ok |-> TRUE, prompt |-> Some("ticket_prompt") ]

\* storage.download returns Ok(video_data).
WorkerDownloadOk(w) ==
  /\ wpc[w] = "process"
  /\ \E len \in VideoSizes :
       stage' = [ stage EXCEPT !.video = len, !.path = NoJob,
                               !.prompt = NULL,
                               !.built = TRUE, !.error = NULL,
                               !.called = FALSE ]
  /\ wpc' = [wpc EXCEPT ![w] = "save_temp_file"]
  /\ UNCHANGED << gateVars, dbVars, wjob, wres, up, disk, rep, ext >>

\* save_temp_file returns Ok(path): NamedTempFile::new creates the file,
\* tokio::fs::write fills it, mem::forget keeps it from being deleted when
\* the handle goes out of scope.
WorkerSaveTempFile(w) ==
  /\ wpc[w] = "save_temp_file"
  /\ stage' = [ stage EXCEPT !.path = wjob[w],
                             !.tmp = stage.tmp \cup { wjob[w] } ]
  /\ wpc' = [wpc EXCEPT ![w] = "build_prompt"]
  /\ UNCHANGED << gateVars, dbVars, wjob, wres, up, disk, rep, ext >>

\* save_temp_file returns Err: NamedTempFile::new fails and there is no
\* file, or the write fails and the handle, dropped by the ?, deletes the
\* file. The ? at the call returns Err from process_next_job.
WorkerSaveTempFileFails(w) ==
  /\ wpc[w] = "save_temp_file"
  /\ stage' = [ stage EXCEPT !.video = 0 ]
  /\ EndIteration(w, "sleep_error")
  /\ UNCHANGED << gateVars, dbVars, up, disk, rep, ext >>

\* A worker that gives up the job when the ticket's prompt cannot be
\* built.
WorkerBuildPromptOrFail(w) ==
  /\ wpc[w] = "build_prompt"
  /\ \E ticket \in Lookups \ { "no_project_id" } : \E project \in Lookups :
       LET built == build_prompt_for_ticket(ticket, project)
       IN /\ stage' = [ stage EXCEPT !.built = built.ok,
                                     !.prompt = built.prompt ]
          /\ wpc' = [wpc EXCEPT ![w] = IF built.ok THEN "analyze"
                                       ELSE "fail_job"]
          /\ wres' = [wres EXCEPT ![w] = IF built.ok THEN wres[w]
                                         ELSE AnalysisFailed]
  /\ UNCHANGED << gateVars, dbVars, wjob, up, disk, rep, ext >>

\* The prompt: for a job of a ticket build_prompt_for_ticket, its Err
\* replaced by default_prompt (unwrap_or_else); for a job without one the
\* job's prompt, which enqueue leaves NULL, or default_prompt.
WorkerBuildPrompt(w) ==
  /\ wpc[w] = "build_prompt"
  /\ IF TicketOf(wjob[w]) # NoTicket
     THEN \E ticket \in Lookups \ { "no_project_id" } : \E project \in Lookups :
            LET built == build_prompt_for_ticket(ticket, project)
            IN stage' = [ stage EXCEPT
                            !.built = built.ok,
                            !.prompt = IF built.ok THEN built.prompt
                                       ELSE Some(default_prompt) ]
     ELSE stage' = [ stage EXCEPT !.prompt = Some(default_prompt) ]
  /\ wpc' = [wpc EXCEPT ![w] = "analyze"]
  /\ UNCHANGED << gateVars, dbVars, wjob, wres, up, disk, rep, ext >>

\* An analyze that sends whatever it read.
GeminiAnalyzeReadUnchecked(w) ==
  /\ wpc[w] = "analyze"
  /\ wpc' = [wpc EXCEPT ![w] = "call_api"]
  /\ UNCHANGED << gateVars, dbVars, wjob, wres, up, sideVars >>

\* GeminiService::analyze up to call_api: fs::read of the temp file, then
\* the size check, which bails with "Video too large" before anything is
\* encoded or sent.
GeminiAnalyzeRead(w) ==
  /\ wpc[w] = "analyze"
  /\ IF too_large(stage.video)
     THEN /\ stage' = [ stage EXCEPT !.error = Some("Video too large") ]
          /\ wres' = [wres EXCEPT ![w] = AnalysisFailed]
          /\ wpc' = [wpc EXCEPT ![w] = "remove_file"]
     ELSE /\ wpc' = [wpc EXCEPT ![w] = "call_api"]
          /\ UNCHANGED << stage, wres >>
  /\ UNCHANGED << gateVars, dbVars, wjob, up, disk, rep, ext >>

\* fs::read fails: analyze returns "Failed to read" and sends nothing.
GeminiAnalyzeReadFails(w) ==
  /\ wpc[w] = "analyze"
  /\ stage' = [ stage EXCEPT !.error = Some("Failed to read") ]
  /\ wres' = [wres EXCEPT ![w] = AnalysisFailed]
  /\ wpc' = [wpc EXCEPT ![w] = "remove_file"]
  /\ UNCHANGED << gateVars, dbVars, wjob, up, disk, rep, ext >>

\* call_api: the POST to the model's endpoint goes out; it returns the
\* text of the answer.
GeminiCallApiOk(w) ==
  /\ wpc[w] = "call_api"
  /\ stage' = [ stage EXCEPT !.called = TRUE ]
  /\ \E text \in AnalysisTexts : wres' = [wres EXCEPT ![w] = text]
  /\ wpc' = [wpc EXCEPT ![w] = "remove_file"]
  /\ UNCHANGED << gateVars, dbVars, wjob, up, disk, rep, ext >>

\* call_api: the request fails, the answer is an API error or has no text.
GeminiCallApiFails(w) ==
  /\ wpc[w] = "call_api"
  /\ stage' = [ stage EXCEPT !.called = TRUE,
                             !.error = Some("Request failed") ]
  /\ wres' = [wres EXCEPT ![w] = AnalysisFailed]
  /\ wpc' = [wpc EXCEPT ![w] = "remove_file"]
  /\ UNCHANGED << gateVars, dbVars, wjob, up, disk, rep, ext >>

\* A worker that removes the temp file only when the analysis succeeded.
WorkerRemoveFileOnSuccess(w) ==
  /\ wpc[w] = "remove_file"
  /\ stage' = [ stage EXCEPT
                  !.tmp = IF stage.error = NULL
                          THEN stage.tmp \ { stage.path } ELSE stage.tmp,
                  !.video = 0, !.prompt = NULL ]
  /\ wpc' = [wpc EXCEPT ![w] = IF stage.error = NULL THEN "complete_job"
                                ELSE "fail_job"]
  /\ UNCHANGED << gateVars, dbVars, wjob, wres, up, disk, rep, ext >>

\* Both arms of the match on analyze begin with remove_file(&temp_path);
\* the Ok arm goes on to complete_job, the Err arm to fail_job. The video
\* and the prompt are not used after the analysis.
WorkerRemoveFile(w) ==
  /\ wpc[w] = "remove_file"
  /\ stage' = [ stage EXCEPT !.tmp = stage.tmp \ { stage.path },
                             !.video = 0, !.prompt = NULL ]
  /\ wpc' = [wpc EXCEPT ![w] = IF stage.error = NULL THEN "complete_job"
                                ELSE "fail_job"]
  /\ UNCHANGED << gateVars, dbVars, wjob, wres, up, disk, rep, ext >>

\* process_next_job with the stage between the claim and the first write
\* taken step by step.
StageStep(w) ==
  \/ WorkerDequeueSelect(w)
  \/ WorkerDequeueUpdate(w)
  \/ WorkerDownloadFails(w)
  \/ WorkerDownloadOk(w)
  \/ WorkerSaveTempFile(w)
  \/ WorkerSaveTempFileFails(w)
  \/ WorkerBuildPrompt(w)
  \/ GeminiAnalyzeRead(w)
  \/ GeminiAnalyzeReadFails(w)
  \/ GeminiCallApiOk(w)
  \/ GeminiCallApiFails(w)
  \/ WorkerRemoveFile(w)
  \/ WorkerFailJob(w)
  \/ WorkerMarkFailed(w)
  \/ WorkerCompleteJob(w)
  \/ WorkerMarkAnalyzed(w)
  \/ WorkerCreateReportDbError(w)
  \/ WorkerCreateReport(w)
  \/ WorkerDbError(w)
  \/ WorkerWake(w)

\* One process after its startup, its temp directory empty. stage holds
\* the worker's locals between the download and the first write, and the
\* files of the temp directory that save_temp_file has left there, each
\* named by the job it was made for.
StageInit ==
  /\ CoreAtRest
  /\ stage = [ pc |-> "stage", tmp |-> {}, path |-> NoJob, video |-> 0,
               prompt |-> NULL, built |-> TRUE, error |-> NULL,
               called |-> FALSE ]
  /\ disk = Idle /\ rep = Idle /\ ext = Idle

StageNext ==
  \/ StageStep(LocalWorker)
  \/ CreateTicket
  \/ Upload
  \/ \E j \in JobIds : RetryJob(j)

StageSpec ==
  /\ StageInit
  /\ [][StageNext]_vars
  /\ WF_vars(StageStep(LocalWorker))

\* C21: analyze fails for every input larger than 20 MB (20 * 1024 * 1024
\* bytes) before any network call: the step of analyze on such an input
\* ends in the Err arm with nothing sent, with the size-exceeded error
\* whenever the file could be read, and a request only ever goes out for
\* an input within the ceiling.
C21_TooLargeFailsBeforeCall ==
  [][ /\ ( /\ wpc[LocalWorker] = "analyze"
           /\ wpc'[LocalWorker] # "analyze"
           /\ too_large(stage.video) )
         => /\ wpc'[LocalWorker] = "remove_file"
            /\ wres'[LocalWorker] = AnalysisFailed
            /\ stage'.error \in { Some("Video too large"),
                                  Some("Failed to read") }
            /\ ~stage'.called
      /\ (wpc'[LocalWorker] = "call_api" \/ stage'.called)
         => ~too_large(stage'.video) ]_vars

\* A recording one byte over the ceiling was refused and nothing was sent.
C21_Witness ==
  /\ wpc[LocalWorker] = "remove_file"
  /\ stage.video = MAX_SIZE_MB * MB + 1
  /\ stage.error = Some("Video too large")
  /\ ~stage.called

\* C28: the temp file of a job is removed on every way out of the analysis
\* stage: at every iteration boundary of the worker the temp directory
\* holds no file of a job, and inside an iteration it holds at most the
\* file of the job in hand.
C28_NoTempFileAtBoundary ==
  /\ AtIterationBoundary(LocalWorker) => stage.tmp = {}
  /\ stage.tmp \subseteq { wjob[LocalWorker] }
  /\ stage.tmp # {} =>
       wpc[LocalWorker] \in { "build_prompt", "analyze", "call_api",
                              "remove_file" }

\* The worker is back at the top of its loop after a job whose prompt
\* could not be built and whose analysis failed, its temp file gone.
C28_Witness ==
  /\ wpc[LocalWorker] = "poll"
  /\ stage.path # NoJob
  /\ ~stage.built
  /\ stage.error # NULL
  /\ stage.tmp = {}

\* C30: when the ticket's prompt cannot be built (no ticket row, a failed
\* ticket lookup, a failed project lookup) the worker takes the default
\* prompt and goes on to the analysis: the prompt step writes no row and
\* always leads to analyze, and fail_job is only entered from a failed
\* download or a failed analysis.
C30_PromptFailureFallsBack ==
  [][ /\ ( /\ wpc[LocalWorker] = "build_prompt"
           /\ wpc'[LocalWorker] # "build_prompt" )
         => /\ wpc'[LocalWorker] = "analyze"
            /\ UNCHANGED dbVars
            /\ stage'.prompt # NULL
            /\ ~stage'.built => stage'.prompt = Some(default_prompt)
      /\ ( /\ wpc'[LocalWorker] = "fail_job"
           /\ wpc[LocalWorker] # "fail_job" )
         => \/ wpc[LocalWorker] = "process"
            \/ wpc[LocalWorker] = "remove_file" /\ stage.error # NULL
    ]_vars

\* A job whose prompt could not be built has been analysed with the
\* default prompt, successfully, and is about to be completed.
C30_Witness ==
  /\ wpc[LocalWorker] = "remove_file"
  /\ ~stage.built
  /\ stage.prompt = Some(default_prompt)
  /\ stage.called
  /\ stage.error = NULL
  /\ jobs[wjob[LocalWorker]].status = "Processing"

\* C37: after any sequence of enqueue, dequeue, complete_job, fail_job and
\* retry_job, a Pending job has no started_at and no error text, a
\* Processing job has started_at, a Completed job has a result text and a
\* Failed job has an error text.
C37_StatusFieldsAgree ==
  \A j \in JobIds :
    /\ jobs[j].status = "Pending" =>
         ~jobs[j].started_at /\ jobs[j].error_message = NULL
    /\ jobs[j].status = "Processing" => jobs[j].started_at
    /\ jobs[j].status = "Completed" => jobs[j].analysis_result # NULL
    /\ jobs[j].status = "Failed" => jobs[j].error_message # NULL

\* A job that was dequeued, failed and retried is Pending again.
C37_Witness ==
  \E j \in JobIds :
    /\ jobs[j].status = "Pending"
    /\ jobs[j].retry_count > 0
    /\ jobs[j].completed_at

\* C38: retry_job leaves created_at as it is, so a retried job keeps its
\* place in the queue: no step changes the creation time of a job, and a
\* dequeue that takes a job created later than a Pending job does so only
\* while that older job is locked by another dequeue, which is taking it.
C38_RetryKeepsQueuePosition ==
  [][ /\ \A j \in JobIds : jobs'[j].created_at = jobs[j].created_at
      /\ \A j, k \in JobIds : j < k => jobs[j].created_at < jobs[k].created_at
      /\ \A w \in Workers :
           (wpc[w] = "poll" /\ wpc'[w] = "dequeue_update") =>
             \A j \in JobIds :
               ( /\ jobs[j].status = "Pending"
                 /\ jobs[j].retry_count > 0
                 /\ j < wjob'[w] ) => Locked(j) ]_vars

\* The first job has failed and been retried, the second was created after
\* it and is Pending: a dequeue has taken the first.
C38_Witness ==
  /\ Len(jobs) >= 2
  /\ jobs[1].retry_count > 0 /\ jobs[1].status = "Pending"
  /\ jobs[2].status = "Pending" /\ jobs[2].retry_count = 0
  /\ \E w \in Workers : wpc[w] = "dequeue_update" /\ wjob[w] = 1

\* C39: the worker loop of a process is started only after its readiness
\* gate has been set, and once: the loop starts in the one step after set
\* has returned, never again, and every dequeue of the loop happens with
\* the gate holding the state.
C39_WorkerStartsAfterSet ==
  [][ /\ wpc'[LocalWorker] # wpc[LocalWorker] =>
           /\ get = Some(Handle) /\ ~gateWriter
           /\ wpc'[LocalWorker] # "not_started"
           /\ wpc[LocalWorker] = "not_started" <=>
                (initPc = "spawn_worker" /\ initPc' = "done")
      /\ initPc = "done" => initPc' = "done" ]_vars

\* The worker of the process has taken a job; the gate is set.
C39_Witness ==
  /\ wpc[LocalWorker] = "dequeue_update"
  /\ initPc = "done"
  /\ get = Some(Handle)

\* C35 as stated: a job created by an upload is not claimed before its
\* ticket is linked to it and set to processing, and the upload's write of
\* processing never lands after the worker's analyzed or failed for that
\* job: it lands while the job is still Pending.
C35_LinkBeforeClaim ==
  [][ /\ \A w \in Workers :
           (wpc[w] = "poll" /\ wpc'[w] = "dequeue_update"
              /\ TicketOf(wjob'[w]) # NoTicket) =>
             /\ tickets[TicketOf(wjob'[w])].analysis_job_id = wjob'[w]
             /\ tickets[TicketOf(wjob'[w])].status = "processing"
      /\ (up.pc = "link" /\ up'.pc = "idle") =>
           jobs[up.job].status = "Pending" ]_vars

\* C36 as stated: once a ticket shows the terminal outcome its job has now
\* (analyzed for Completed, failed for Failed), no worker's mark_failed or
\* mark_analyzed turns it to the other terminal status while the job keeps
\* that outcome: the write of an earlier attempt does not land after the
\* write of a later one.
C36_LatestOutcomeStays ==
  [][ \A j \in 1..Len(jobs) :
        LET t == TicketOf(j) IN
          ( /\ t # NoTicket
            /\ << jobs[j].status, tickets[t].status >> \in
                  { << "Completed", "analyzed" >>, << "Failed", "failed" >> }
            /\ jobs'[j].status = jobs[j].status
            /\ tickets'[t].status \in { "analyzed", "failed" } ) =>
            tickets'[t].status = tickets[t].status ]_vars

\* C40 as stated: while the worker loop keeps running and every call it
\* makes returns, every enqueued job eventually is Completed or Failed and
\* the ticket it belongs to, if any, eventually is analyzed or failed.
C40_EveryJobSettles ==
  \A j \in 1..MaxJobs :
    (j <= Len(jobs)) ~>
      /\ j <= Len(jobs)
      /\ jobs[j].status \in { "Completed", "Failed" }
      /\ TicketOf(j) # NoTicket =>
            tickets[TicketOf(j)].status \in { "analyzed", "failed" }

\* ------------------------------------------- The prompt of a ticket

\* The most questions a project has, over its three lists.
MaxQuestions == 3

\* A filter that keeps the disabled questions too.
enabled_for_type_unfiltered(questions, feedback_type) ==
  [ i \in DOMAIN questions[feedback_type] |->
      questions[feedback_type][i].text ]

\* AnalysisQuestions::enabled_for_type: the list of the feedback type
\* (match), its enabled questions (filter), their texts (map), in order.
enabled_for_type(questions, feedback_type) ==
  LET list == questions[feedback_type]
      kept == SelectSeq(list, LAMBDA q : q.enabled)
  IN [ i \in DOMAIN kept |-> kept[i].text ]

\* Worker::build_prompt_for_ticket for a ticket that is found and whose
\* project is found: the prompt as the sequence of its parts, each a pair
\* of what the part is and its text. The label and the context follow the
\* feedback type; the question block is empty without enabled questions,
\* otherwise its heading and one line per question; the description and
\* the closing description of the JSON structure are fixed texts here.
BuildTicketPrompt ==
  /\ stage.pc = "input"
  /\ LET type_label ==
           CASE stage.feedback_type = "bug" -> "Bug"
             [] stage.feedback_type = "feedback" -> "Feedback"
             [] stage.feedback_type = "idea" -> "Idea"
         feedback_context ==
           CASE stage.feedback_type = "bug" -> "Focus on identifying bugs"
             [] stage.feedback_type = "feedback" ->
                  "Analyze the user experience"
             [] stage.feedback_type = "idea" ->
                  "Analyze the feature request"
         asked == enabled_for_type(stage.questions, stage.feedback_type)
         question_block ==
           IF asked # << >>
           THEN << << "heading", "Answer these questions" >> >>
                  \o [ i \in DOMAIN asked |-> << "question", asked[i] >> ]
           ELSE << >>
     IN stage' = [ stage EXCEPT
                     !.pc = "built",
                     !.prompt =
                       << << "type_label", type_label >>,
                          << "feedback_context", feedback_context >>,
                          << "description", "task_description" >> >>
                         \o question_block
                         \o << << "structure", "JSON object" >> >> ]
  /\ UNCHANGED << gateVars, dbVars, workerVars, up, disk, rep, ext >>

\* One ticket of one of the three feedback types and the analysis
\* questions of its project: a list per type, up to MaxQuestions questions
\* in all, each enabled or not; two texts, so that a text may stand in
\* more than one list.
PromptInit ==
  /\ CoreAtRest
  /\ disk = Idle /\ rep = Idle /\ ext = Idle
  /\ LET list(n) == [ 1..n -> [ text : { "q1", "q2" }, enabled : BOOLEAN ] ]
         sizes == { n \in (0..MaxQuestions) \X (0..MaxQuestions)
                            \X (0..MaxQuestions) :
                    n[1] + n[2] + n[3] <= MaxQuestions }
         settings == UNION { { [ bug |-> b, feedback |-> f, idea |-> i ] :
                               b \in list(n[1]), f \in list(n[2]),
                               i \in list(n[3]) } : n \in sizes }
     IN stage \in { [ pc |-> "input", feedback_type |-> t,
                      questions |-> q, prompt |-> << >> ] :
                    t \in { "bug", "feedback", "idea" }, q \in settings }

PromptSpec == PromptInit /\ [][BuildTicketPrompt]_vars

\* C33: the prompt built for a ticket of feedback type T carries the
\* context of T and of no other type, the text of every question enabled
\* for T, and no question line other than those: every question line is
\* the text of an enabled question of T's list, so a disabled question and
\* a question of another type's list contribute no line.
C33_PromptAsksEnabledQuestionsOfType ==
  stage.pc = "built" =>
    LET T == stage.feedback_type
        list == stage.questions[T]
        parts == { stage.prompt[i] : i \in DOMAIN stage.prompt }
        lines == { part[2] : part \in { x \in parts : x[1] = "question" } }
    IN /\ T = "bug" =>
            << "feedback_context", "Focus on identifying bugs" >> \in parts
       /\ T = "feedback" =>
            << "feedback_context", "Analyze the user experience" >> \in parts
       /\ T = "idea" =>
            << "feedback_context", "Analyze the feature request" >> \in parts
       /\ Cardinality({ x \in parts : x[1] = "feedback_context" }) = 1
       /\ \A i \in DOMAIN list : list[i].enabled => list[i].text \in lines
       /\ \A line \in lines :
            \E i \in DOMAIN list : list[i].enabled /\ list[i].text = line

\* A bug ticket whose project has an enabled and a disabled bug question
\* and an enabled feedback question of another text: the prompt asks the
\* enabled bug question alone.
C33_Witness ==
  /\ stage.pc = "built"
  /\ stage.feedback_type = "bug"
  /\ stage.questions["bug"] = << [ text |-> "q1", enabled |-> TRUE ],
                                 [ text |-> "q2", enabled |-> FALSE ] >>
  /\ stage.questions["feedback"] = << [ text |-> "q2", enabled |-> TRUE ] >>
  /\ << "question", "q1" >> \in { stage.prompt[i] : i \in DOMAIN stage.prompt }
  /\ << "question", "q2" >> \notin { stage.prompt[i] : i \in DOMAIN stage.prompt }

\* ------------------------------------------- A ticket deleted under way

\* delete_ticket: the gate, then TicketService::delete: the SELECT finds
\* the ticket of the owner, the video is deleted from storage (the result
\* of that dropped), then DELETE FROM recordings. The job row is not
\* touched.
DeleteTicket(t) ==
  /\ CanRead
  /\ get_or_unavailable.ok
  /\ tickets[t].status # "deleted"
  /\ tickets' = [ tickets EXCEPT ![t] = [ status |-> "deleted",
                                          analysis_job_id |-> NoJob ] ]
  /\ UNCHANGED << gateVars, jobs, reports, workerVars, up, sideVars >>

\* A report belongs to a ticket (one-to-one with a ticket's analysis
\* outcome): the reports table takes a row only for a ticket that exists.
\* For a ticket that is gone the INSERT is refused, which the report step
\* logs and drops (WorkerCreateReportDbError).
ReportsReferenceTickets(recording_id) ==
  tickets[recording_id].status # "deleted"

\* One process after its startup, its clients creating and uploading to
\* tickets and deleting a ticket whose job is Pending or Processing,
\* external retries.
DeleteNext ==
  \/ WorkerDequeueSelect(LocalWorker)
  \/ WorkerDequeueUpdate(LocalWorker)
  \/ WorkerDownloadFails(LocalWorker)
  \/ WorkerTempFileFails(LocalWorker)
  \/ WorkerAnalysisOk(LocalWorker)
  \/ WorkerAnalysisFails(LocalWorker)
  \/ WorkerFailJob(LocalWorker)
  \/ WorkerMarkFailed(LocalWorker)
  \/ WorkerCompleteJob(LocalWorker)
  \/ WorkerMarkAnalyzed(LocalWorker)
  \/ WorkerCreateReportDbError(LocalWorker)
  \/ /\ wpc[LocalWorker] = "create_report"
     /\ ReportsReferenceTickets(TicketOf(wjob[LocalWorker]))
     /\ WorkerCreateReport(LocalWorker)
  \/ WorkerDbError(LocalWorker)
  \/ WorkerWake(LocalWorker)
  \/ CreateTicket
  \/ Upload
  \/ \E j \in JobIds : RetryJob(j)
  \/ \E j \in JobIds : /\ jobs[j].status \in { "Pending", "Processing" }
                        /\ DeleteTicket(TicketOf(j))

DeleteSpec == QueueInit /\ [][DeleteNext]_vars

\* C32 as stated: no report row is created for a ticket that is deleted,
\* and an iteration of the worker on a job whose ticket is deleted ends with
\* the job Completed or Failed and the loop going on, never with the job
\* left Processing.
C32_DeletedTicketJobSettles ==
  [][ /\ Len(reports') > Len(reports) =>
           tickets'[reports'[Len(reports')]].status # "deleted"
      /\ \A w \in Workers :
           ( /\ wjob[w] # NoJob
             /\ wjob'[w] = NoJob
             /\ jobs[wjob[w]].status # "Pending"
             /\ TicketOf(wjob[w]) # NoTicket
             /\ tickets[TicketOf(wjob[w])].status = "deleted" ) =>
             /\ jobs'[wjob[w]].status \in { "Completed", "Failed" }
             /\ wpc'[w] # "stopped" ]_vars

\* ------------------------------------------- The two size ceilings

\* widget.rs, upload_widget_video: const MAX_SIZE_MB: f64 = 50.0, the
\* ceiling of the upload handler (gemini_service.rs has its own).
upload_MAX_SIZE_MB == 50

\* upload_widget_video for the ticket, with a video of len bytes: over the
\* handler's ceiling it answers 400 before upload_video is called; within
\* it upload_video stores the video at the ticket's path and sets the
\* ticket to uploading (the enqueue and the link follow).
upload_widget_video(t, len) ==
  /\ CanRead
  /\ get_or_unavailable.ok
  /\ up.pc = "idle"
  /\ Len(jobs) < MaxJobs
  /\ IF len > upload_MAX_SIZE_MB * MB
     THEN /\ stage' = [ stage EXCEPT !.status = 400 ]
          /\ UNCHANGED << tickets, up >>
     ELSE /\ stage' = [ stage EXCEPT !.status = 0, !.stored = len ]
          /\ tickets' = [ tickets EXCEPT ![t].status = "uploading" ]
          /\ up' = [ pc |-> "enqueue", ticket |-> t, job |-> NoJob ]
  /\ UNCHANGED << gateVars, jobs, reports, workerVars, disk, rep, ext >>

\* storage.download returns Ok(video_data): the bytes last stored at the
\* ticket's path.
WorkerDownloadStored(w) ==
  /\ wpc[w] = "process"
  /\ stage' = [ stage EXCEPT !.video = stage.stored, !.path = NoJob,
                             !.prompt = NULL, !.built = TRUE,
                             !.error = NULL, !.called = FALSE ]
  /\ wpc' = [wpc EXCEPT ![w] = "save_temp_file"]
  /\ UNCHANGED << gateVars, dbVars, wjob, wres, up, disk, rep, ext >>

\* One process after its startup with one ticket, nothing stored at the
\* ticket's path yet.
SizeInit ==
  /\ initPc = "done" /\ ready = set(Handle) /\ gateWriter = FALSE
  /\ req = IdleRequest /\ up = IdleUpload
  /\ jobs = << >> /\ tickets = << NewTicket >> /\ reports = << >>
  /\ wpc = [ w \in Workers |-> "poll" ]
  /\ wjob = [ w \in Workers |-> NoJob ]
  /\ wres = [ w \in Workers |-> NULL ]
  /\ stage = [ pc |-> "stage", tmp |-> {}, path |-> NoJob, video |-> 0,
               prompt |-> NULL, built |-> TRUE, error |-> NULL,
               called |-> FALSE, stored |-> 0, status |-> 0 ]
  /\ disk = Idle /\ rep = Idle /\ ext = Idle

\* Uploads of videos of every size for the ticket, and the worker loop
\* with the stage between the claim and the first write step by step.
SizeNext ==
  \/ \E len \in VideoSizes \cup { upload_MAX_SIZE_MB * MB,
                                 upload_MAX_SIZE_MB * MB + 1 } :
       upload_widget_video(1, len)
  \/ UploadEnqueue
  \/ UploadLink
  \/ WorkerDequeueSelect(LocalWorker)
  \/ WorkerDequeueUpdate(LocalWorker)
  \/ WorkerDownloadFails(LocalWorker)
  \/ WorkerDownloadStored(LocalWorker)
  \/ WorkerSaveTempFile(LocalWorker)
  \/ WorkerSaveTempFileFails(LocalWorker)
  \/ WorkerBuildPrompt(LocalWorker)
  \/ GeminiAnalyzeRead(LocalWorker)
  \/ GeminiAnalyzeReadFails(LocalWorker)
  \/ GeminiCallApiOk(LocalWorker)
  \/ GeminiCallApiFails(LocalWorker)
  \/ WorkerRemoveFile(LocalWorker)
  \/ WorkerFailJob(LocalWorker)
  \/ WorkerMarkFailed(LocalWorker)
  \/ WorkerCompleteJob(LocalWorker)
  \/ WorkerMarkAnalyzed(LocalWorker)
  \/ WorkerCreateReportDbError(LocalWorker)
  \/ WorkerCreateReport(LocalWorker)
  \/ WorkerDbError(LocalWorker)
  \/ WorkerWake(LocalWorker)

SizeSpec == SizeInit /\ [][SizeNext]_vars

\* C31 as stated: the two ceilings act each at its layer. An upload over
\* 50 MB is refused and enqueues nothing; an upload within 50 MB is
\* accepted; and the iteration of a job whose video is over 20 MB always
\* ends with the job Failed and the ticket failed, nothing having been
\* sent to the model.
C31_OversizeAlwaysEndsFailed ==
  [][ /\ (stage'.status = 400 /\ stage.status # 400) =>
           UNCHANGED << dbVars, up >> /\ stage'.stored = stage.stored
      /\ (up.pc = "idle" /\ up'.pc = "enqueue") =>
           stage'.stored <= upload_MAX_SIZE_MB * MB
      /\ stage'.stored # stage.stored =>
           up.pc = "idle" /\ up'.pc = "enqueue"
      /\ stage'.called => ~too_large(stage'.video)
      /\ ( /\ wjob[LocalWorker] # NoJob
           /\ wjob'[LocalWorker] = NoJob
           /\ too_large(stage.stored)
           /\ jobs[wjob[LocalWorker]].status # "Pending" ) =>
           /\ jobs'[wjob[LocalWorker]].status = "Failed"
           /\ tickets'[TicketOf(wjob[LocalWorker])].status = "failed" ]_vars

====
